---- MODULE Spec2Model ----
(***************************************************************************)
(* Model of the multi-payment-gateway package: the Paytech adapter         *)
(* (PaytechGateway.ts), its mappers, validation utilities and webhook      *)
(* validator, and the MultiPaymentGateway facade (index.ts).               *)
(*                                                                         *)
(* JavaScript objects are records whose DOMAIN is the set of keys that are *)
(* present; an absent key is a field that is undefined.  A nullable        *)
(* argument is a sequence of length at most one: None for null/undefined,  *)
(* Some(v) for a value.  An asynchronous call that reaches its HTTP        *)
(* request is split at the await: the invoking action runs the code up to  *)
(* the request, the completing action runs the code after it.              *)
(***************************************************************************)
EXTENDS Integers, Sequences, FiniteSets, Bags, TLC

VARIABLES adapter, facade, pending, last, succeeded, latest, settling

vars == <<adapter, facade, pending, last, succeeded, latest, settling>>

-----------------------------------------------------------------------------
(* JavaScript values *)

None == <<>>

Some(v) == <<v>>

Has(o, k) == k \in DOMAIN o

\* !o[k] is false: the key is present and its string value is not empty
TruthyStr(o, k) == Has(o, k) /\ o[k] # ""

\* the sub-object of o on the keys it has among ks
Pick(o, ks) == [k \in (ks \cap DOMAIN o) |-> o[k]]

EmptyObject == [k \in {} |-> ""]

-----------------------------------------------------------------------------
(* Bounds *)

\* the most calls that may be awaiting their HTTP response at one time: the
\* code sets no limit, the bound keeps the state space finite while letting
\* HTTP calls overlap
MaxInFlight == 2

\* the most initialize calls on the facade that may be awaiting the promise of
\* the adapter's initialize at one time: the code sets no limit
MaxSettling == 2

-----------------------------------------------------------------------------
(* constants.ts *)

PAYTECH_CURRENCIES == {"XOF", "EUR", "USD", "CAD", "GBP", "MAD"}

REQUEST_PAYMENT == "/payment/request-payment"

CHECK_STATUS == "/payment/check-status"

REFUND == "/payment/refund"

PAYTECH_ENVIRONMENT_TEST == "test"

PAYTECH_ENVIRONMENT_PRODUCTION == "prod"

\* the client timeout of the constructor and the fallback of initialize
DefaultTimeout == 10000

\* TransactionStatus
PENDING == "pending"

COMPLETED == "completed"

FAILED == "failed"

CANCELED == "canceled"

REFUNDED == "refunded"

\* PaymentProvider
PAYTECH == "paytech"

CINETPAY == "cinetpay"

MONEY_FUSION == "moneyfusion"

-----------------------------------------------------------------------------
(* Error messages *)

ErrAdapterNotInitialized == "Gateway not initialized. Call initialize() first."

ErrFacadeNotInitialized == "Payment gateway not initialized. Call initialize() first."

ErrMissingFields == "Invalid payment request: missing required fields"

ErrInvalidAmount == "Invalid amount"

ErrPaymentIdRequired == "Payment ID is required"

ErrInvalidWebhookPayload == "Invalid webhook payload"

\* a property read or a method call on undefined or null
TypeError == "TypeError: Cannot read properties of undefined"

-----------------------------------------------------------------------------
(* Inputs: GatewayConfig values handed to initialize *)

ConfigPlain ==
    [apiKey |-> "key-A", apiSecret |-> "secret-A", environment |-> "test"]

ConfigSecret ==
    [apiKey |-> "key-A", apiSecret |-> "secret-A", environment |-> "test",
     webhookSecret |-> "whsec"]

ConfigEmptySecret ==
    [apiKey |-> "key-A", apiSecret |-> "secret-A", environment |-> "test",
     webhookSecret |-> ""]

ConfigFull ==
    [apiKey |-> "key-B", apiSecret |-> "secret-B", environment |-> "production",
     webhookSecret |-> "whsec-B",
     additionalConfig |->
        [timeout |-> 20000, merchantId |-> "merchant-B",
         defaultIpnUrl |-> "https://cfg/ipn",
         defaultSuccessUrl |-> "https://cfg/success",
         defaultCancelUrl |-> "https://cfg/cancel"]]

Configs == {ConfigPlain, ConfigSecret, ConfigEmptySecret, ConfigFull}

\* the config argument of initialize: a GatewayConfig, or undefined
ConfigArgs == {None} \cup {Some(c) : c \in Configs}

Providers == {PAYTECH, CINETPAY, MONEY_FUSION, "stripe"}

-----------------------------------------------------------------------------
(* PaytechGateway: constructor and initialize *)

\* this.config, this.initialized and this.client.defaults.timeout after new PaytechGateway()
NewPaytechGateway ==
    [config |-> [apiKey |-> "", apiSecret |-> "", environment |-> "test"],
     initialized |-> FALSE,
     timeout |-> DefaultTimeout]

\* config.additionalConfig?.x
AdditionalConfig(config) ==
    IF Has(config, "additionalConfig") THEN config.additionalConfig ELSE EmptyObject

\* (config.additionalConfig?.timeout as number) || 10000
ConfigTimeout(config) ==
    LET extra == AdditionalConfig(config)
    IN  IF Has(extra, "timeout") /\ extra.timeout # 0 THEN extra.timeout ELSE DefaultTimeout

\* the PaytechConfig that initialize assigns to this.config
PaytechConfigOf(config) ==
    Pick(config, {"apiKey", "apiSecret", "environment", "webhookSecret"})
      @@ [timeout |-> ConfigTimeout(config)]
      @@ Pick(AdditionalConfig(config),
              {"merchantId", "defaultIpnUrl", "defaultSuccessUrl", "defaultCancelUrl"})

\* initialize(config) on adapter g: the adapter afterwards and what the call did.
\* Reading config.apiKey of an undefined config throws before anything is assigned.
PaytechInitialize(g, configArg) ==
    IF configArg = None
    THEN [gateway |-> g, outcome |-> "threw", error |-> TypeError]
    ELSE [gateway |-> [config |-> PaytechConfigOf(configArg[1]),
                       initialized |-> TRUE,
                       timeout |-> ConfigTimeout(configArg[1])],
          outcome |-> "returned", result |-> TRUE]

-----------------------------------------------------------------------------
(* Inputs: PaymentRequest values handed to createPayment *)

\* metadata is a list of entries in insertion order; a value is a string, or a
\* number held as its decimal text
MetaOrder == <<[k |-> "orderId", t |-> "string", v |-> "123"]>>

MetaCount == <<[k |-> "a", t |-> "number", v |-> "1"]>>

MetaNote == <<[k |-> "note", t |-> "string", v |-> "say \"hi\" \\ bye"]>>

MetaMixed ==
    <<[k |-> "orderId", t |-> "string", v |-> "123"],
      [k |-> "count", t |-> "number", v |-> "-5"],
      [k |-> "gift", t |-> "boolean", v |-> "true"],
      [k |-> "coupon", t |-> "null", v |-> "null"]>>

Metadatas == {<<>>, MetaOrder, MetaCount, MetaNote, MetaMixed}

RequestTemplates ==
    {[amount |-> a, currency |-> c, reference |-> "order-123",
      description |-> "Test payment"] :
        a \in {0, 5000}, c \in {"XOF", "xof", "INVALID"}}
    \cup
    {[amount |-> -5, currency |-> "EUR", reference |-> "", description |-> "Test payment"],
     [amount |-> 5000, currency |-> "", reference |-> "order-123", description |-> ""]}

\* requests that lack some of the four validated fields
PartialRequests ==
    {Pick(t, ks) : t \in RequestTemplates,
                   ks \in SUBSET {"amount", "currency", "reference", "description"}}

ValidRequest ==
    [amount |-> 5000, currency |-> "XOF", reference |-> "order-123",
     description |-> "Test payment"]

RequestUrls ==
    [webhookUrl |-> "https://req/webhook", returnUrl |-> "https://req/success",
     cancelUrl |-> "https://req/cancel"]

\* currency codes: the supported ones in several casings, and others
CurrencyCodes ==
    {"XOF", "xof", "Xof", "EUR", "eur", "eUr", "USD", "usd", "CAD", "cad",
     "GBP", "gbP", "MAD", "mad", "XAF", "xaf", "EURO", "US", "usdt", " XOF"}

\* valid requests with any of the optional URLs and metadata, and valid requests
\* but for their currency
OptionalRequests ==
    {ValidRequest @@ Pick(RequestUrls, ks) : ks \in SUBSET DOMAIN RequestUrls}
    \cup {ValidRequest @@ [metadata |-> m] : m \in Metadatas}
    \cup {ValidRequest @@ RequestUrls @@ [metadata |-> MetaOrder],
          ValidRequest @@ [webhookUrl |-> ""],
          [ValidRequest EXCEPT !.amount = 250]}
    \cup {[ValidRequest EXCEPT !.currency = c] : c \in CurrencyCodes}

Requests == PartialRequests \cup OptionalRequests

RequestArgs == {None} \cup {Some(r) : r \in Requests}

-----------------------------------------------------------------------------
(* utils.ts: validation utilities *)

\* the upper-case letter of a lower-case letter; any other character is itself
UpperChar(c) ==
    CASE c = "a" -> "A" [] c = "b" -> "B" [] c = "c" -> "C" [] c = "d" -> "D"
      [] c = "e" -> "E" [] c = "f" -> "F" [] c = "g" -> "G" [] c = "h" -> "H"
      [] c = "i" -> "I" [] c = "j" -> "J" [] c = "k" -> "K" [] c = "l" -> "L"
      [] c = "m" -> "M" [] c = "n" -> "N" [] c = "o" -> "O" [] c = "p" -> "P"
      [] c = "q" -> "Q" [] c = "r" -> "R" [] c = "s" -> "S" [] c = "t" -> "T"
      [] c = "u" -> "U" [] c = "v" -> "V" [] c = "w" -> "W" [] c = "x" -> "X"
      [] c = "y" -> "Y" [] c = "z" -> "Z" [] OTHER -> c

\* String.prototype.toUpperCase, character by character
RECURSIVE ToUpperCase(_)
ToUpperCase(s) ==
    IF s = "" THEN ""
    ELSE UpperChar(SubSeq(s, 1, 1)) \o ToUpperCase(SubSeq(s, 2, Len(s)))

\* mutant: the code is looked up as it is written
isValidPaytechCurrency_CaseSensitive(currency) == currency \in PAYTECH_CURRENCIES

\* PAYTECH_CURRENCIES.includes(currency.toUpperCase())
isValidPaytechCurrency(currency) == ToUpperCase(currency) \in PAYTECH_CURRENCIES

\* mutant: the amount check lets zero through
isValidPaytechAmount_AllowsZero(amount) == amount # None /\ amount[1] >= 0

\* amount > 0, where amount may be undefined (None): undefined > 0 is false
isValidPaytechAmount(amount) == amount # None /\ amount[1] > 0

-----------------------------------------------------------------------------
(* mappers.ts: request mapper *)

\* the i-th character of s, or "" beyond its ends
Char(s, i) == IF i >= 1 /\ i <= Len(s) THEN SubSeq(s, i, i) ELSE ""

\* a character inside a JSON string literal
EscapeChar(c) ==
    CASE c = "\"" -> "\\\""
      [] c = "\\" -> "\\\\"
      [] c = "\n" -> "\\n"
      [] c = "\t" -> "\\t"
      [] OTHER -> c

\* the JSON string literal of s, without its quotes
RECURSIVE EscapeJson(_)
EscapeJson(s) ==
    IF s = "" THEN ""
    ELSE EscapeChar(SubSeq(s, 1, 1)) \o EscapeJson(SubSeq(s, 2, Len(s)))

\* mutant: keys and strings are written between quotes as they are
JsonEntry_NoEscape(e) ==
    "\"" \o e.k \o "\":" \o
        (IF e.t = "string" THEN "\"" \o e.v \o "\"" ELSE e.v)

\* JSON.stringify of one metadata entry: a string value is quoted and escaped,
\* a number, a boolean or null is its text
JsonEntry(e) ==
    "\"" \o EscapeJson(e.k) \o "\":" \o
        (IF e.t = "string" THEN "\"" \o EscapeJson(e.v) \o "\"" ELSE e.v)

RECURSIVE JsonEntries(_)
JsonEntries(m) ==
    IF m = <<>> THEN ""
    ELSE IF Len(m) = 1 THEN JsonEntry(m[1])
    ELSE JsonEntry(m[1]) \o "," \o JsonEntries(Tail(m))

\* JSON.stringify(request.metadata)
JsonStringify(m) == "{" \o JsonEntries(m) \o "}"

\* environment === "production" ? PRODUCTION : TEST
PaytechEnv(environment) ==
    IF environment = Some("production")
    THEN PAYTECH_ENVIRONMENT_PRODUCTION
    ELSE PAYTECH_ENVIRONMENT_TEST

\* the value of o[k] as a nullable
Field(o, k) == IF Has(o, k) THEN Some(o[k]) ELSE None

\* o[k] under the name n, when o has k
Renamed(o, k, n) == IF Has(o, k) THEN [x \in {n} |-> o[k]] ELSE EmptyObject

\* mutant: the reference is written to the description-of-order field as well
mapToPaytechRequest_ReferenceTwice(request, environment) ==
    [item_name |-> request.description,
     item_price |-> ToString(request.amount),
     currency |-> request.currency,
     ref_command |-> request.reference,
     command_name |-> request.reference,
     env |-> PaytechEnv(environment)]
      @@ Renamed(request, "webhookUrl", "ipn_url")
      @@ Renamed(request, "returnUrl", "success_url")
      @@ Renamed(request, "cancelUrl", "cancel_url")
      @@ (IF Has(request, "metadata")
          THEN [custom_field |-> JsonStringify(request.metadata)]
          ELSE EmptyObject)

mapToPaytechRequest(request, environment) ==
    [item_name |-> request.description,
     item_price |-> ToString(request.amount),
     currency |-> request.currency,
     ref_command |-> request.reference,
     command_name |-> request.description,
     env |-> PaytechEnv(environment)]
      @@ Renamed(request, "webhookUrl", "ipn_url")
      @@ Renamed(request, "returnUrl", "success_url")
      @@ Renamed(request, "cancelUrl", "cancel_url")
      @@ (IF Has(request, "metadata")
          THEN [custom_field |-> JsonStringify(request.metadata)]
          ELSE EmptyObject)

-----------------------------------------------------------------------------
(* Outcomes of an HTTP request *)

\* a value thrown inside a try block or rejected by the HTTP client:
\* null/undefined (nullish), or a value with the properties the handlers read
TypeErrorValue ==
    [nullish |-> FALSE, isAxiosError |-> FALSE, isError |-> TRUE,
     message |-> "Cannot read properties of undefined"]

NetworkError ==
    [nullish |-> FALSE, isAxiosError |-> FALSE, isError |-> TRUE,
     message |-> "Network error"]

\* an AxiosError without a response (timeout, connection refused)
AxiosTimeout ==
    [nullish |-> FALSE, isAxiosError |-> TRUE, isError |-> TRUE,
     message |-> "timeout of 10000ms exceeded"]

\* a rejection with a value that is no Error, such as a string
StringRejection == [nullish |-> FALSE, isAxiosError |-> FALSE, isError |-> FALSE]

NullRejection == [nullish |-> TRUE]

\* an AxiosError carrying the response of the given status and body
AxiosHttpError(status, body) ==
    [nullish |-> FALSE, isAxiosError |-> TRUE, isError |-> TRUE,
     message |-> "Request failed with status code " \o ToString(status),
     response |-> [status |-> status] @@ body]

\* the plain object the tests reject with: no message, not an Error
PlainHttpError(status, body) ==
    [nullish |-> FALSE, isAxiosError |-> TRUE, isError |-> FALSE,
     response |-> [status |-> status] @@ body]

\* the bodies of an HTTP error response: with an error field, without, with an
\* empty one, and no body at all
ErrorBodies ==
    {[data |-> [error |-> "Bad request"]], [data |-> EmptyObject],
     [data |-> [error |-> ""]], EmptyObject}

HttpStatuses == {400, 404, 500}

Rejections ==
    {NetworkError, AxiosTimeout, StringRejection, NullRejection}
    \cup {AxiosHttpError(st, b) : st \in HttpStatuses, b \in ErrorBodies}
    \cup {PlainHttpError(st, b) : st \in HttpStatuses, b \in ErrorBodies}

\* response.data of a payment request
PaymentDatas ==
    {[success |-> 1, redirect_url |-> "https://paytech.sn/payment/checkout/abc123",
      token |-> "abc123"],
     [success |-> 1],
     [success |-> 0, error |-> "Invalid currency"],
     [success |-> 0],
     [success |-> 0, error |-> ""],
     [success |-> 2, error |-> "Invalid currency", token |-> "abc123"],
     [error |-> "Invalid currency"]}

\* an HTTP outcome: a response with or without a body, or a rejection
Resolved(datas) == {[ok |-> TRUE]} \cup {[ok |-> TRUE, data |-> d] : d \in datas}

Rejected == {[ok |-> FALSE, error |-> e] : e \in Rejections}

-----------------------------------------------------------------------------
(* What a call does: it throws, it returns, or it sends an HTTP request *)

Throw(msg) == [outcome |-> "threw", error |-> msg]

Return(v) == [outcome |-> "returned", result |-> v]

Send(wire) == [outcome |-> "sent", wire |-> wire]

\* axios.isAxiosError(error) || error.isAxiosError, then && error.response
IsHttpError(e) == e.isAxiosError /\ Has(e, "response")

\* error instanceof Error ? error.message : "Unknown error"
ErrorMessage(e) == IF e.isError THEN e.message ELSE "Unknown error"

-----------------------------------------------------------------------------
(* mappers.ts: response mapper *)

\* mutant: the message is the error field alone, without the fallback literal
mapFromPaytechResponse_NoFallback(response) ==
    IF Has(response, "success") /\ response.success = 1
    THEN [success |-> TRUE, status |-> PENDING, createdAt |-> "now"]
           @@ Renamed(response, "redirect_url", "redirectUrl")
           @@ Renamed(response, "token", "token")
           @@ Renamed(response, "token", "paymentId")
    ELSE [success |-> FALSE, status |-> FAILED, createdAt |-> "now"]
           @@ Renamed(response, "error", "message")

\* mutant: any truthy success flag counts as success
mapFromPaytechResponse_TruthyFlag(response) ==
    IF Has(response, "success") /\ response.success # 0
    THEN [success |-> TRUE, status |-> PENDING, createdAt |-> "now"]
           @@ Renamed(response, "redirect_url", "redirectUrl")
           @@ Renamed(response, "token", "token")
           @@ Renamed(response, "token", "paymentId")
    ELSE [success |-> FALSE,
          message |-> IF TruthyStr(response, "error")
                      THEN response.error
                      ELSE "Unknown error occurred",
          status |-> FAILED,
          createdAt |-> "now"]

mapFromPaytechResponse(response) ==
    IF Has(response, "success") /\ response.success = 1
    THEN [success |-> TRUE, status |-> PENDING, createdAt |-> "now"]
           @@ Renamed(response, "redirect_url", "redirectUrl")
           @@ Renamed(response, "token", "token")
           @@ Renamed(response, "token", "paymentId")
    ELSE [success |-> FALSE,
          message |-> IF TruthyStr(response, "error")
                      THEN response.error
                      ELSE "Unknown error occurred",
          status |-> FAILED,
          createdAt |-> "now"]

-----------------------------------------------------------------------------
(* PaytechGateway.createPayment *)

getHeaders(g) ==
    ("Accept" :> "application/json") @@ ("Content-Type" :> "application/json")
      @@ Renamed(g.config, "apiKey", "API_KEY")
      @@ Renamed(g.config, "apiSecret", "API_SECRET")

\* mutant: a configured default replaces the URL of the request
DefaultUrl_Always(paytechRequest, config, field, default) ==
    IF TruthyStr(config, default)
    THEN [x \in {field} |-> config[default]]
    ELSE EmptyObject

\* the defaults of the configuration for the URLs the request left out
DefaultUrl(paytechRequest, config, field, default) ==
    IF ~TruthyStr(paytechRequest, field) /\ TruthyStr(config, default)
    THEN [x \in {field} |-> config[default]]
    ELSE EmptyObject

\* the try block up to the request: the mapped request with the default URLs
PaymentWire(g, request) ==
    LET mapped == mapToPaytechRequest(request, Field(g.config, "environment"))
        body == DefaultUrl(mapped, g.config, "ipn_url", "defaultIpnUrl")
                  @@ DefaultUrl(mapped, g.config, "success_url", "defaultSuccessUrl")
                  @@ DefaultUrl(mapped, g.config, "cancel_url", "defaultCancelUrl")
                  @@ mapped
    IN  [method |-> "POST", url |-> REQUEST_PAYMENT, body |-> body,
         headers |-> getHeaders(g)]

\* mutant: the request is validated before the initialized flag is looked at
createPaymentInvoke_ValidatesFirst(g, requestArg) ==
    IF requestArg = None THEN Throw(TypeError)
    ELSE LET request == requestArg[1]
         IN  IF ~TruthyStr(request, "reference") \/ ~TruthyStr(request, "description")
             THEN Throw(ErrMissingFields)
             ELSE IF ~isValidPaytechAmount(Field(request, "amount"))
             THEN Throw(ErrInvalidAmount)
             ELSE IF ~Has(request, "currency") THEN Throw(TypeError)
             ELSE IF ~isValidPaytechCurrency(request.currency)
             THEN Throw("Unsupported currency: " \o request.currency)
             ELSE IF ~g.initialized THEN Throw(ErrAdapterNotInitialized)
             ELSE Send(PaymentWire(g, request))

\* mutant: the amount is checked before the reference and the description
createPaymentInvoke_AmountFirst(g, requestArg) ==
    IF ~g.initialized THEN Throw(ErrAdapterNotInitialized)
    ELSE IF requestArg = None THEN Throw(TypeError)
    ELSE LET request == requestArg[1]
         IN  IF ~isValidPaytechAmount(Field(request, "amount"))
             THEN Throw(ErrInvalidAmount)
             ELSE IF ~TruthyStr(request, "reference") \/ ~TruthyStr(request, "description")
             THEN Throw(ErrMissingFields)
             ELSE IF ~Has(request, "currency") THEN Throw(TypeError)
             ELSE IF ~isValidPaytechCurrency(request.currency)
             THEN Throw("Unsupported currency: " \o request.currency)
             ELSE Send(PaymentWire(g, request))

\* createPayment up to the await of its HTTP request
createPaymentInvoke(g, requestArg) ==
    IF ~g.initialized THEN Throw(ErrAdapterNotInitialized)
    ELSE IF requestArg = None THEN Throw(TypeError)
    ELSE LET request == requestArg[1]
         IN  IF ~TruthyStr(request, "reference") \/ ~TruthyStr(request, "description")
             THEN Throw(ErrMissingFields)
             ELSE IF ~isValidPaytechAmount(Field(request, "amount"))
             THEN Throw(ErrInvalidAmount)
             ELSE IF ~Has(request, "currency") THEN Throw(TypeError)
             ELSE IF ~isValidPaytechCurrency(request.currency)
             THEN Throw("Unsupported currency: " \o request.currency)
             ELSE Send(PaymentWire(g, request))

\* the catch block of createPayment and refundPayment; what names the operation
CatchToResult(e, what) ==
    IF e.nullish THEN Throw(TypeError)
    ELSE IF IsHttpError(e)
    THEN IF ~Has(e.response, "data") THEN Throw(TypeError)
         ELSE Return([success |-> FALSE,
                      message |-> IF TruthyStr(e.response.data, "error")
                                  THEN e.response.data.error
                                  ELSE IF TruthyStr(e, "message") THEN e.message
                                  ELSE what \o " failed",
                      status |-> FAILED,
                      createdAt |-> "now"])
    ELSE Return([success |-> FALSE,
                 message |-> what \o " failed: " \o ErrorMessage(e),
                 status |-> FAILED,
                 createdAt |-> "now"])

\* createPayment from the arrival of the HTTP outcome
createPaymentComplete(http) ==
    IF http.ok
    THEN IF Has(http, "data")
         THEN Return(mapFromPaytechResponse(http.data))
         ELSE CatchToResult(TypeErrorValue, "Payment request")
    ELSE CatchToResult(http.error, "Payment request")

-----------------------------------------------------------------------------
(* mappers.ts: status mapper and refund mapper *)

\* the lower-case letter of an upper-case letter; any other character is itself
LowerChar(c) ==
    CASE c = "A" -> "a" [] c = "B" -> "b" [] c = "C" -> "c" [] c = "D" -> "d"
      [] c = "E" -> "e" [] c = "F" -> "f" [] c = "G" -> "g" [] c = "H" -> "h"
      [] c = "I" -> "i" [] c = "J" -> "j" [] c = "K" -> "k" [] c = "L" -> "l"
      [] c = "M" -> "m" [] c = "N" -> "n" [] c = "O" -> "o" [] c = "P" -> "p"
      [] c = "Q" -> "q" [] c = "R" -> "r" [] c = "S" -> "s" [] c = "T" -> "t"
      [] c = "U" -> "u" [] c = "V" -> "v" [] c = "W" -> "w" [] c = "X" -> "x"
      [] c = "Y" -> "y" [] c = "Z" -> "z" [] OTHER -> c

\* String.prototype.toLowerCase, character by character
RECURSIVE ToLowerCase(_)
ToLowerCase(s) ==
    IF s = "" THEN ""
    ELSE LowerChar(SubSeq(s, 1, 1)) \o ToLowerCase(SubSeq(s, 2, Len(s)))

\* the switch over a lower-cased status string, undefined (None) included
StatusOf(lowered) ==
    CASE lowered \in {Some("completed"), Some("success")} -> COMPLETED
      [] lowered \in {Some("pending"), Some("waiting")} -> PENDING
      [] lowered \in {Some("canceled"), Some("cancelled")} -> CANCELED
      [] lowered = Some("refunded") -> REFUNDED
      [] OTHER -> FAILED

\* statusResponse.status?.toLowerCase()
LoweredStatus(o) == IF Has(o, "status") THEN Some(ToLowerCase(o.status)) ELSE None

\* mutant: the success flag is not looked at
mapPaytechStatus_IgnoresFlag(statusResponse) ==
    StatusOf(LoweredStatus(statusResponse))

\* !statusResponse.success: the flag is 0 or absent
mapPaytechStatus(statusResponse) ==
    IF ~Has(statusResponse, "success") \/ statusResponse.success = 0
    THEN FAILED
    ELSE StatusOf(LoweredStatus(statusResponse))

\* a number: Num(n), or NaN
Num(n) == <<n>>

NaN == <<>>

\* parseFloat on the amount strings of the model
parseFloat(s) ==
    CASE s = "5000" -> Num(5000)
      [] s = "2000" -> Num(2000)
      [] s = "1000.00" -> Num(1000)
      [] OTHER -> NaN

\* mutant: the amount the provider reports comes first
RefundAmount_ProviderFirst(response, requestedAmount) ==
    IF TruthyStr(response, "amount")
    THEN [amount |-> parseFloat(response.amount)]
    ELSE IF requestedAmount # None /\ requestedAmount[1] # 0
    THEN [amount |-> Num(requestedAmount[1])]
    ELSE EmptyObject

\* requestedAmount || (response.amount ? parseFloat(response.amount) : undefined)
RefundAmount(response, requestedAmount) ==
    IF requestedAmount # None /\ requestedAmount[1] # 0
    THEN [amount |-> Num(requestedAmount[1])]
    ELSE IF TruthyStr(response, "amount")
    THEN [amount |-> parseFloat(response.amount)]
    ELSE EmptyObject

mapFromPaytechRefundResponse(response, requestedAmount) ==
    IF Has(response, "success") /\ response.success = 1
    THEN [success |-> TRUE, status |-> REFUNDED,
          createdAt |-> IF TruthyStr(response, "date") THEN response.date ELSE "now"]
           @@ Renamed(response, "refund_id", "refundId")
           @@ RefundAmount(response, requestedAmount)
    ELSE [success |-> FALSE,
          message |-> IF TruthyStr(response, "error")
                      THEN response.error
                      ELSE "Refund failed",
          status |-> FAILED,
          createdAt |-> "now"]

-----------------------------------------------------------------------------
(* PaytechGateway.verifyPayment and refundPayment *)

PaymentIdArgs == {None, Some(""), Some("payment-123")}

\* the optional amount of refundPayment
AmountArgs == {None, Some(2000), Some(0), Some(-5)}

\* response.data of a status check
StatusDatas ==
    {[success |-> 1, status |-> st] :
        st \in {"completed", "COMPLETED", "Success", "Pending", "waiting",
                "canceled", "CANCELLED", "Refunded", "failed", "expired", ""}}
    \cup {[success |-> 0, status |-> st] :
            st \in {"completed", "Pending", "CANCELLED", "refunded", "failed"}}
    \cup {[success |-> 1], [success |-> 2, status |-> "pEnDiNg"],
          [status |-> "completed"], [success |-> 0, error |-> "Not found"]}

\* response.data of a refund
RefundDatas ==
    {[success |-> 1, refund_id |-> "refund-123", amount |-> "5000",
      status |-> "refunded", date |-> "2023-01-01T12:00:00Z"],
     [success |-> 1, refund_id |-> "refund-123", amount |-> "2000"],
     [success |-> 1, refund_id |-> "refund-123"],
     [success |-> 1, amount |-> "abc"],
     [success |-> 0, error |-> "Payment already refunded"],
     [success |-> 0],
     [success |-> 2, refund_id |-> "refund-123", error |-> ""]}

\* verifyPayment up to the await of its HTTP request
verifyPaymentInvoke(g, paymentId) ==
    IF ~g.initialized THEN Throw(ErrAdapterNotInitialized)
    ELSE IF paymentId = None \/ paymentId = Some("") THEN Throw(ErrPaymentIdRequired)
    ELSE Send([method |-> "GET", url |-> CHECK_STATUS \o "/" \o paymentId[1],
               headers |-> getHeaders(g)])

\* mutant: every HTTP error response counts as not found
verifyPaymentCatch_AnyHttpError(e) ==
    IF e.nullish THEN Throw(TypeError)
    ELSE IF IsHttpError(e) THEN Return(FAILED)
    ELSE Throw("Failed to verify payment: " \o ErrorMessage(e))

\* the catch block of verifyPayment
verifyPaymentCatch(e) ==
    IF e.nullish THEN Throw(TypeError)
    ELSE IF IsHttpError(e) /\ e.response.status = 404 THEN Return(FAILED)
    ELSE Throw("Failed to verify payment: " \o ErrorMessage(e))

\* verifyPayment from the arrival of the HTTP outcome
verifyPaymentComplete(http) ==
    IF http.ok
    THEN IF Has(http, "data")
         THEN Return(mapPaytechStatus(http.data))
         ELSE verifyPaymentCatch(TypeErrorValue)
    ELSE verifyPaymentCatch(http.error)

\* mutant: the amount is sent whenever one was passed
RefundRequest_AnyAmount(paymentId, amount) ==
    [token |-> paymentId]
      @@ (IF amount # None THEN [amount |-> amount[1]] ELSE EmptyObject)

\* the refund request: the token, and the amount when amount && amount > 0
RefundRequest(paymentId, amount) ==
    [token |-> paymentId]
      @@ (IF amount # None /\ amount[1] > 0 THEN [amount |-> amount[1]] ELSE EmptyObject)

\* refundPayment up to the await of its HTTP request
refundPaymentInvoke(g, paymentId, amount) ==
    IF ~g.initialized THEN Throw(ErrAdapterNotInitialized)
    ELSE IF paymentId = None \/ paymentId = Some("") THEN Throw(ErrPaymentIdRequired)
    ELSE Send([method |-> "POST", url |-> REFUND,
               body |-> RefundRequest(paymentId[1], amount),
               headers |-> getHeaders(g)])

\* refundPayment from the arrival of the HTTP outcome; amount is the argument
refundPaymentComplete(http, amount) ==
    IF http.ok
    THEN IF Has(http, "data")
         THEN Return(mapFromPaytechRefundResponse(http.data, amount))
         ELSE CatchToResult(TypeErrorValue, "Refund request")
    ELSE CatchToResult(http.error, "Refund request")

-----------------------------------------------------------------------------
(* utils.ts: webhook signature *)

\* the keys of a webhook payload in the order of Array.prototype.sort
SortedKeys ==
    <<"amount", "currency", "custom_field", "customer_info", "date",
      "ref_command", "status", "token", "transaction_id", "type">>

IsKeyOf(payload) == [k \in {SortedKeys[i] : i \in DOMAIN SortedKeys} |-> k \in DOMAIN payload]

\* Object.keys(payload).sort()
KeysSorted(payload) == SelectSeq(SortedKeys, LAMBDA k : IsKeyOf(payload)[k])

\* `${key}=${payload[key]}`: an object value prints as [object Object]
KeyValue(payload, key) ==
    key \o "=" \o (IF key = "customer_info" THEN "[object Object]" ELSE payload[key])

RECURSIVE JoinPairs(_, _)
JoinPairs(payload, keys) ==
    IF keys = <<>> THEN ""
    ELSE IF Len(keys) = 1 THEN KeyValue(payload, keys[1])
    ELSE KeyValue(payload, keys[1]) \o "&" \o JoinPairs(payload, Tail(keys))

\* the canonical form of a payload
PayloadString(payload) == JoinPairs(payload, KeysSorted(payload))

\* createHmac("sha256", secret).update(message).digest("hex"): the digest is a
\* term over the key and the message, so distinct inputs give distinct digests
HmacSha256Hex(secret, message) == "hmac-sha256[" \o secret \o "][" \o message \o "]"

createWebhookSignature(payload, secret) == HmacSha256Hex(secret, PayloadString(payload))

verifyWebhookSignature(payload, signature, secret) ==
    createWebhookSignature(payload, secret) = signature

-----------------------------------------------------------------------------
(* webhooks.ts: webhook validator *)

\* mutant: status is not among the required fields
requiredFields_NoStatus == <<"token", "ref_command", "type">>

requiredFields == <<"token", "ref_command", "type", "status">>

\* the required fields that payload lacks, in the order they are checked
MissingFields(payload) == SelectSeq(requiredFields, LAMBDA f : ~TruthyStr(payload, f))

\* mutant: the signature is read under the lower-case header name only
SignatureHeader_LowerCaseOnly(headers) ==
    IF TruthyStr(headers, "x-paytech-signature") THEN Some(headers["x-paytech-signature"])
    ELSE None

\* headers["x-paytech-signature"] || headers["X-Paytech-Signature"]
SignatureHeader(headers) ==
    IF TruthyStr(headers, "x-paytech-signature") THEN Some(headers["x-paytech-signature"])
    ELSE IF TruthyStr(headers, "X-Paytech-Signature") THEN Some(headers["X-Paytech-Signature"])
    ELSE None

\* validatePaytechWebhook(payload, headers, webhookSecret); each argument is nullable
validatePaytechWebhook(payload, headers, webhookSecret) ==
    IF payload = None
    THEN Return([isValid |-> FALSE, reason |-> "Empty payload"])
    ELSE IF MissingFields(payload[1]) # <<>>
    THEN Return([isValid |-> FALSE,
                 reason |-> "Missing required field: " \o MissingFields(payload[1])[1]])
    ELSE IF webhookSecret # None /\ webhookSecret # Some("")
    THEN IF headers = None THEN Throw(TypeError)
         ELSE IF SignatureHeader(headers[1]) = None
         THEN Return([isValid |-> FALSE, reason |-> "Missing signature header"])
         ELSE IF ~verifyWebhookSignature(payload[1], SignatureHeader(headers[1])[1],
                                         webhookSecret[1])
         THEN Return([isValid |-> FALSE, reason |-> "Invalid signature"])
         ELSE Return([isValid |-> TRUE])
    ELSE Return([isValid |-> TRUE])

\* mutant: the API secret is handed over as the webhook secret
validateWebhook_ApiSecret(g, payload, headers) ==
    validatePaytechWebhook(payload, headers, Field(g.config, "apiSecret"))

\* PaytechGateway.validateWebhook
validateWebhook(g, payload, headers) ==
    validatePaytechWebhook(payload, headers, Field(g.config, "webhookSecret"))

-----------------------------------------------------------------------------
(* mappers.ts: webhook event mapper *)

\* mutant: the case of a canceled payment is missing from the switch
EventTypeOf_CanceledUnmapped(type) ==
    CASE type = Some("payment_success") -> "payment.success"
      [] type = Some("payment_failed") -> "payment.failed"
      [] type = Some("refund_success") -> "refund.success"
      [] type = Some("refund_failed") -> "refund.failed"
      [] OTHER -> "payment.success"

\* the switch over payload.type
EventTypeOf(type) ==
    CASE type = Some("payment_success") -> "payment.success"
      [] type = Some("payment_failed") -> "payment.failed"
      [] type = Some("payment_canceled") -> "payment.failed"
      [] type = Some("refund_success") -> "refund.success"
      [] type = Some("refund_failed") -> "refund.failed"
      [] OTHER -> "payment.success"

\* JSON.parse, as a parser of the text of an object whose values are strings,
\* integers, booleans or null; a step of the parser gives the value read and
\* the position after it, or fails
ParseFail == [ok |-> FALSE, t |-> "", v |-> "", next |-> 0]

Digits == {"0", "1", "2", "3", "4", "5", "6", "7", "8", "9"}

\* the position of the first character at or after i that is not white space
RECURSIVE SkipSpace(_, _)
SkipSpace(s, i) ==
    IF Char(s, i) \in {" ", "\n", "\t"} THEN SkipSpace(s, i + 1) ELSE i

\* the string literal whose opening quote is before position i; acc is the
\* part of the string read so far
RECURSIVE ScanString(_, _, _)
ScanString(s, i, acc) ==
    LET c == Char(s, i)
        d == Char(s, i + 1)
    IN  IF c = "" \/ c = "\n" \/ c = "\t" THEN ParseFail
        ELSE IF c = "\"" THEN [ok |-> TRUE, t |-> "string", v |-> acc, next |-> i + 1]
        ELSE IF c = "\\"
        THEN IF d \in {"\"", "\\", "/"} THEN ScanString(s, i + 2, acc \o d)
             ELSE IF d = "n" THEN ScanString(s, i + 2, acc \o "\n")
             ELSE IF d = "t" THEN ScanString(s, i + 2, acc \o "\t")
             ELSE ParseFail
        ELSE ScanString(s, i + 1, acc \o c)

\* the position after the digits that start at i
RECURSIVE ScanDigits(_, _)
ScanDigits(s, i) == IF Char(s, i) \in Digits THEN ScanDigits(s, i + 1) ELSE i

\* an integer literal at i: an optional minus sign, then digits without a
\* leading zero
ParseNumber(s, i) ==
    LET start == IF Char(s, i) = "-" THEN i + 1 ELSE i
        end == ScanDigits(s, start)
    IN  IF end = start THEN ParseFail
        ELSE IF Char(s, start) = "0" /\ end > start + 1 THEN ParseFail
        ELSE IF Char(s, end) \in {".", "e", "E"} THEN ParseFail
        ELSE [ok |-> TRUE, t |-> "number", v |-> SubSeq(s, i, end - 1), next |-> end]

\* the literal word at i, of type t
ParseLiteral(s, i, word, t) ==
    IF i + Len(word) - 1 <= Len(s) /\ SubSeq(s, i, i + Len(word) - 1) = word
    THEN [ok |-> TRUE, t |-> t, v |-> word, next |-> i + Len(word)]
    ELSE ParseFail

\* a value at i
ParseValue(s, i) ==
    LET c == Char(s, i)
    IN  IF c = "\"" THEN ScanString(s, i + 1, "")
        ELSE IF c = "-" \/ c \in Digits THEN ParseNumber(s, i)
        ELSE IF c = "t" THEN ParseLiteral(s, i, "true", "boolean")
        ELSE IF c = "f" THEN ParseLiteral(s, i, "false", "boolean")
        ELSE IF c = "n" THEN ParseLiteral(s, i, "null", "null")
        ELSE ParseFail

\* the members of an object from the key at i on, after the members acc: the
\* entries when the object closes at the end of the text, None otherwise
RECURSIVE ParseMembers(_, _, _)
ParseMembers(s, i, acc) ==
    IF Char(s, i) # "\"" THEN None
    ELSE LET key == ScanString(s, i + 1, "")
         IN  IF ~key.ok THEN None
             ELSE LET colon == SkipSpace(s, key.next)
                  IN  IF Char(s, colon) # ":" THEN None
                      ELSE LET value == ParseValue(s, SkipSpace(s, colon + 1))
                           IN  IF ~value.ok THEN None
                               ELSE LET after == SkipSpace(s, value.next)
                                        entries == Append(acc, [k |-> key.v, t |-> value.t,
                                                                v |-> value.v])
                                    IN  IF Char(s, after) = ","
                                        THEN ParseMembers(s, SkipSpace(s, after + 1), entries)
                                        ELSE IF Char(s, after) = "}"
                                                /\ SkipSpace(s, after + 1) = Len(s) + 1
                                        THEN Some(entries)
                                        ELSE None

\* JSON.parse(payload.custom_field): the entries of the object the text
\* denotes, or None when the parse throws
JsonParse(s) ==
    LET open == SkipSpace(s, 1)
        first == SkipSpace(s, open + 1)
    IN  IF Char(s, open) # "{" THEN None
        ELSE IF Char(s, first) = "}"
        THEN IF SkipSpace(s, first + 1) = Len(s) + 1 THEN Some(<<>>) ELSE None
        ELSE ParseMembers(s, first, <<>>)

\* mutant: a custom field that does not parse gives empty metadata
WebhookMetadata_DropsMalformed(payload) ==
    IF ~TruthyStr(payload, "custom_field") THEN <<>>
    ELSE IF JsonParse(payload.custom_field) # None THEN JsonParse(payload.custom_field)[1]
    ELSE <<>>

\* metadata of the event: {} without a custom field, the parsed custom field,
\* or { raw: custom_field } when the parse throws
WebhookMetadata(payload) ==
    IF ~TruthyStr(payload, "custom_field") THEN <<>>
    ELSE IF JsonParse(payload.custom_field) # None THEN JsonParse(payload.custom_field)[1]
    ELSE <<[k |-> "raw", t |-> "string", v |-> payload.custom_field]>>

\* payload.customer_info?.field under the name n
CustomerField(payload, field, n) ==
    IF Has(payload, "customer_info")
    THEN Renamed(payload.customer_info, field, n)
    ELSE EmptyObject

\* mutant: the switch of the event mapper lacks the case "waiting"
WebhookStatusOf_NoWaiting(lowered) ==
    CASE lowered \in {"completed", "success"} -> COMPLETED
      [] lowered = "pending" -> PENDING
      [] lowered \in {"canceled", "cancelled"} -> CANCELED
      [] lowered = "refunded" -> REFUNDED
      [] OTHER -> FAILED

\* the switch of the event mapper over payload.status.toLowerCase()
WebhookStatusOf(lowered) ==
    CASE lowered \in {"completed", "success"} -> COMPLETED
      [] lowered \in {"pending", "waiting"} -> PENDING
      [] lowered \in {"canceled", "cancelled"} -> CANCELED
      [] lowered = "refunded" -> REFUNDED
      [] OTHER -> FAILED

\* payload.status.toLowerCase() throws when the payload has no status
mapFromPaytechWebhook(payload) ==
    IF ~Has(payload, "status") THEN Throw(TypeError)
    ELSE Return(
        [type |-> EventTypeOf(Field(payload, "type")),
         data |-> [status |-> WebhookStatusOf(ToLowerCase(payload.status)),
                   amount |-> IF Has(payload, "amount")
                              THEN parseFloat(payload.amount) ELSE NaN,
                   metadata |-> WebhookMetadata(payload)]
                    @@ Renamed(payload, "ref_command", "reference")
                    @@ Renamed(payload, "token", "paymentId")
                    @@ Renamed(payload, "currency", "currency")
                    @@ Renamed(payload, "transaction_id", "gatewayReference")
                    @@ CustomerField(payload, "email", "customerEmail")
                    @@ CustomerField(payload, "name", "customerName")
                    @@ CustomerField(payload, "phone", "customerPhone"),
         createdAt |-> IF TruthyStr(payload, "date") THEN payload.date ELSE "now",
         gatewayName |-> "paytech"])

\* PaytechGateway.processWebhook
processWebhook(payload) ==
    IF payload = None THEN Throw(ErrInvalidWebhookPayload)
    ELSE mapFromPaytechWebhook(payload[1])

-----------------------------------------------------------------------------
(* Inputs: webhook payloads and the headers they arrive with *)

MinimalPayload ==
    [token |-> "payment-123", ref_command |-> "order-123",
     type |-> "payment_success", status |-> "completed"]

FullPayload ==
    MinimalPayload
      @@ [amount |-> "5000", currency |-> "XOF", date |-> "2023-01-01T12:00:00Z",
          transaction_id |-> "txn-123", custom_field |-> JsonStringify(MetaOrder),
          customer_info |-> [name |-> "Test User", email |-> "test@example.com",
                             phone |-> "+1234567890"]]

EventTypes ==
    {"payment_success", "payment_failed", "payment_canceled", "refund_success",
     "refund_failed", "subscription_created", "PAYMENT_FAILED", "refund"}

PayloadStatuses ==
    {"completed", "COMPLETED", "Success", "Pending", "waiting", "WAITING",
     "canceled", "CANCELLED", "Refunded", "failed", "expired"}

\* custom fields that are not JSON text
MalformedCustomFields == {"not json", "{\"a\":1", "{a:1}", "{\"a\":1}}", "{\"a\":01}"}

CustomFields ==
    {"", "{ \"a\" : 1 }"} \cup MalformedCustomFields
    \cup {JsonStringify(m) : m \in Metadatas}

Payloads ==
    {Pick(MinimalPayload, ks) : ks \in SUBSET DOMAIN MinimalPayload}
    \cup {[MinimalPayload EXCEPT ![f] = ""] : f \in DOMAIN MinimalPayload}
    \cup {[FullPayload EXCEPT !.type = t] : t \in EventTypes}
    \cup {[FullPayload EXCEPT !.status = st] : st \in PayloadStatuses}
    \cup {[FullPayload EXCEPT !.custom_field = c] : c \in CustomFields}
    \cup {[MinimalPayload EXCEPT !.status = st] @@ [amount |-> "abc"] :
            st \in {"Pending", "expired"}}

PayloadArgs == {None} \cup {Some(p) : p \in Payloads}

WebhookSecrets == {"whsec", "whsec-B"}

\* the signature of payload under secret, when there is a payload
SignaturesFor(payload, secrets) ==
    IF payload = None THEN {}
    ELSE {createWebhookSignature(payload[1], k) : k \in secrets}

\* the headers a request for payload may carry: none (a null headers object),
\* no signature, or a right or a wrong signature under either casing of the
\* header name, or under both
HeaderArgsFor(payload) ==
    {None, Some(EmptyObject)}
    \cup {Some("x-paytech-signature" :> sig) :
            sig \in {"invalid-signature"} \cup SignaturesFor(payload, WebhookSecrets)}
    \cup {Some("X-Paytech-Signature" :> sig) :
            sig \in {"invalid-signature"} \cup SignaturesFor(payload, {"whsec"})}
    \cup {Some(("x-paytech-signature" :> low) @@ ("X-Paytech-Signature" :> sig)) :
            low \in {"", "invalid-signature"}, sig \in SignaturesFor(payload, {"whsec"})}

-----------------------------------------------------------------------------
(* Inputs of the specification of the whole package, and the configurations of
   the specification of the HTTP operations (a webhook secret plays no part in
   them) *)

CallConfigArgs == {None, Some(ConfigPlain), Some(ConfigFull)}

CoreConfigArgs == {None, Some(ConfigSecret), Some(ConfigFull)}

\* the configurations the facade is given beside the adapter
SideConfigArgs == {Some(ConfigSecret), Some(ConfigFull)}

CoreRequestArgs ==
    {None, Some(ValidRequest), Some([ValidRequest EXCEPT !.amount = 0]),
     Some(ValidRequest @@ RequestUrls @@ [metadata |-> MetaOrder])}

CorePaymentIdArgs == {None, Some("payment-123")}

CoreAmountArgs == {Some(2000)}

CorePayloadArgs ==
    {None, Some(MinimalPayload), Some(Pick(MinimalPayload, {"ref_command"}))}

CoreHeaderArgs ==
    {Some(EmptyObject),
     Some("x-paytech-signature" :> createWebhookSignature(MinimalPayload, "whsec"))}

CoreRejected ==
    {[ok |-> FALSE, error |-> e] :
        e \in {NetworkError, AxiosHttpError(400, [data |-> [error |-> "Bad request"]])}}

CorePaymentOutcomes ==
    CoreRejected
    \cup {[ok |-> TRUE, data |-> d] :
            d \in {[success |-> 1,
                    redirect_url |-> "https://paytech.sn/payment/checkout/abc123",
                    token |-> "abc123"],
                   [success |-> 0, error |-> "Invalid currency"]}}

CoreVerifyOutcomes ==
    CoreRejected
    \cup {[ok |-> TRUE, data |-> d] :
            d \in {[success |-> 1, status |-> "completed"], [success |-> 0]}}

CoreRefundOutcomes ==
    CoreRejected
    \cup {[ok |-> TRUE, data |-> d] :
            d \in {[success |-> 1, refund_id |-> "refund-123", amount |-> "5000"],
                   [success |-> 0, error |-> "Payment already refunded"]}}

-----------------------------------------------------------------------------
(* State *)

\* adapter: the PaytechGateway the application constructed itself
\* facade:  the MultiPaymentGateway singleton: its gateway (None for null, or the
\*          PaytechGateway it holds) and its provider (None for null)
\* pending: the calls awaiting their HTTP response, as a bag
\* last:    the most recent step of a call: its operation, arguments and outcome
\* succeeded: history, whether an initialize call on the facade has returned
\* latest:  history, the configuration of the most recent initialize call on
\*          the facade that configured its adapter, the call that returns true
\*          (None before any has)
\* settling: the initialize calls on the facade suspended at their await, in
\*          the order they resume: for each, what the adapter's initialize did

NoCall == [op |-> "none", phase |-> "none"]

Vias == {"adapter", "facade"}

Init ==
    /\ adapter = NewPaytechGateway
    /\ facade = [gateway |-> None, provider |-> None]
    /\ pending = EmptyBag
    /\ last = NoCall
    /\ succeeded = FALSE
    /\ latest = None
    /\ settling = <<>>

\* the PaytechGateway a call made through via reaches: the facade's
\* ensureInitialized lets a call through when this.gateway is not null
Target(via) == IF via = "adapter" THEN Some(adapter) ELSE facade.gateway

\* MultiPaymentGateway.ensureInitialized, then the adapter's method op on the
\* arguments args; a call made on the adapter itself runs the method alone
Delegate(via, op, args) ==
    IF Target(via) = None
    THEN Throw(ErrFacadeNotInitialized)
    ELSE LET g == Target(via)[1]
         IN  CASE op = "createPayment" -> createPaymentInvoke(g, args.request)
               [] op = "verifyPayment" -> verifyPaymentInvoke(g, args.paymentId)
               [] op = "refundPayment" ->
                      refundPaymentInvoke(g, args.paymentId, args.amount)
               [] op = "validateWebhook" ->
                      validateWebhook(g, args.payload, args.headers)
               [] op = "processWebhook" -> processWebhook(args.payload)

\* the record of a step of a call, and the call left awaiting its response;
\* calls overlap, up to MaxInFlight of them (the code itself sets no limit)
Step(op, via, args, r) ==
    /\ r.outcome = "sent" => BagCardinality(pending) < MaxInFlight
    /\ last' = [op |-> op, phase |-> "invoke", via |-> via, args |-> args,
                reached |-> Target(via) # None,
                initialized |-> Target(via) # None /\ Target(via)[1].initialized,
                secret |-> IF Target(via) = None THEN None
                           ELSE Field(Target(via)[1].config, "webhookSecret")]
               @@ r
    /\ pending' = IF r.outcome = "sent"
                  THEN pending (+) SetToBag({[op |-> op, via |-> via,
                                              args |-> IF op = "refundPayment"
                                                       THEN args ELSE EmptyObject]})
                  ELSE pending

\* a call made through via is awaiting its HTTP response
InFlight(via) == \E c \in BagToSet(pending) : c.via = via

\* gateway.initialize(config) on the adapter the application constructed itself;
\* rebinds (history): the call returned while a call was in flight on the
\* adapter and installed another configuration than the one held
AdapterInitialize(configArg) ==
    LET r == PaytechInitialize(adapter, configArg)
    IN  /\ adapter' = r.gateway
        /\ last' = [op |-> "initialize", phase |-> "invoke", via |-> "adapter",
                    args |-> configArg, outcome |-> r.outcome,
                    rebinds |-> /\ InFlight("adapter")
                                /\ r.outcome = "returned"
                                /\ r.gateway.config # adapter.config]
        /\ UNCHANGED <<facade, pending, succeeded, latest, settling>>

\* MultiPaymentGateway.getProvider
getProvider(f) == f.provider

\* mutant: a second initialize configures the adapter the facade already holds,
\* on top of the configuration it has
FacadeInitialize_KeepsConfig(provider, configArg) ==
    LET held == IF facade.gateway = None THEN NewPaytechGateway ELSE facade.gateway[1]
        r == PaytechInitialize(held, configArg)
        kept == IF r.outcome = "returned"
                THEN [r.gateway EXCEPT !.config = r.gateway.config @@ held.config]
                ELSE r.gateway
    IN  /\ (provider = PAYTECH => Len(settling) < MaxSettling)
        /\ facade' = [provider |-> Some(provider),
                      gateway |-> IF provider = PAYTECH
                                  THEN Some(kept)
                                  ELSE facade.gateway]
        /\ last' = [op |-> "initialize", phase |-> "invoke", via |-> "facade",
                    provider |-> provider, args |-> configArg,
                    previous |-> facade.gateway,
                    rebinds |-> /\ InFlight("facade")
                                /\ provider = PAYTECH
                                /\ r.outcome = "returned"
                                /\ kept.config # facade.gateway[1].config]
                   @@ (CASE provider = PAYTECH -> [outcome |-> r.outcome]
                         [] provider = CINETPAY ->
                              Throw("CinetPay provider not yet implemented")
                         [] provider = MONEY_FUSION ->
                              Throw("MoneyFusion provider not yet implemented")
                         [] OTHER ->
                              Throw("Unsupported payment provider: " \o provider))
        /\ settling' = IF provider = PAYTECH THEN Append(settling, r.outcome) ELSE settling
        /\ latest' = IF provider = PAYTECH /\ r.outcome = "returned"
                     THEN configArg ELSE latest
        /\ UNCHANGED <<adapter, pending, succeeded>>

\* mutant: a provider without an adapter gets an empty PaytechGateway and the
\* call returns false
FacadeInitialize_SilentStub(provider, configArg) ==
    LET r == PaytechInitialize(NewPaytechGateway, configArg)
    IN  /\ Len(settling) < MaxSettling
        /\ facade' = [provider |-> Some(provider),
                      gateway |-> IF provider = PAYTECH
                                  THEN Some(r.gateway)
                                  ELSE Some(NewPaytechGateway)]
        /\ last' = [op |-> "initialize", phase |-> "invoke", via |-> "facade",
                    provider |-> provider, args |-> configArg,
                    previous |-> facade.gateway,
                    rebinds |-> /\ InFlight("facade")
                                /\ provider = PAYTECH
                                /\ r.outcome = "returned"
                                /\ r.gateway.config # facade.gateway[1].config]
                   @@ (IF provider = PAYTECH
                       THEN [outcome |-> r.outcome]
                       ELSE [outcome |-> "returned"])
        /\ settling' = IF TRUE THEN Append(settling, IF provider = PAYTECH THEN r.outcome ELSE "returned") ELSE settling
        /\ latest' = IF provider = PAYTECH /\ r.outcome = "returned"
                     THEN configArg ELSE latest
        /\ UNCHANGED <<adapter, pending, succeeded>>

\* MultiPaymentGateway.initialize(provider, config): this.provider is assigned
\* first, this.gateway when the provider is Paytech, then the adapter initialized;
\* the call is then suspended at "return await this.gateway.initialize(config)"
\* and its promise settles in a later step; a throw of the switch rejects the
\* call without suspending it. outcome records what the adapter's initialize
\* did, which is what the promise settles with;
\* previous records the adapter the facade held when the call was made, rebinds
\* that the call returned while a call was in flight through the facade and
\* installed an adapter of another configuration than the one held
FacadeInitialize(provider, configArg) ==
    LET r == PaytechInitialize(NewPaytechGateway, configArg)
    IN  /\ (provider = PAYTECH => Len(settling) < MaxSettling)
        /\ facade' = [provider |-> Some(provider),
                      gateway |-> IF provider = PAYTECH
                                  THEN Some(r.gateway)
                                  ELSE facade.gateway]
        /\ last' = [op |-> "initialize", phase |-> "invoke", via |-> "facade",
                    provider |-> provider, args |-> configArg,
                    previous |-> facade.gateway,
                    rebinds |-> /\ InFlight("facade")
                                /\ provider = PAYTECH
                                /\ r.outcome = "returned"
                                /\ r.gateway.config # facade.gateway[1].config]
                   @@ (CASE provider = PAYTECH -> [outcome |-> r.outcome]
                         [] provider = CINETPAY ->
                              Throw("CinetPay provider not yet implemented")
                         [] provider = MONEY_FUSION ->
                              Throw("MoneyFusion provider not yet implemented")
                         [] OTHER ->
                              Throw("Unsupported payment provider: " \o provider))
        /\ settling' = IF provider = PAYTECH THEN Append(settling, r.outcome) ELSE settling
        /\ latest' = IF provider = PAYTECH /\ r.outcome = "returned"
                     THEN configArg ELSE latest
        /\ UNCHANGED <<adapter, pending, succeeded>>

\* the oldest suspended initialize call on the facade resumes after its await:
\* its promise resolves true, or rejects with what the adapter's initialize threw
FacadeInitializeSettle ==
    /\ settling # <<>>
    /\ settling' = Tail(settling)
    /\ succeeded' = (succeeded \/ Head(settling) = "returned")
    /\ last' = [op |-> "initialize", phase |-> "settle", via |-> "facade",
                outcome |-> Head(settling)]
    /\ UNCHANGED <<adapter, facade, pending, latest>>

\* mutant: createPayment keeps the webhook URL of the request as the default of
\* the adapter's configuration
CreatePayment_RemembersWebhookUrl(via, requestArg) ==
    /\ Step("createPayment", via, [request |-> requestArg],
            Delegate(via, "createPayment", [request |-> requestArg]))
    /\ adapter' = IF via = "adapter" /\ requestArg # None
                      /\ Has(requestArg[1], "webhookUrl")
                   THEN [adapter EXCEPT !.config =
                            [defaultIpnUrl |-> requestArg[1].webhookUrl] @@ adapter.config]
                   ELSE adapter
    /\ UNCHANGED <<facade, succeeded, latest, settling>>

CreatePayment(via, requestArg) ==
    /\ Step("createPayment", via, [request |-> requestArg],
            Delegate(via, "createPayment", [request |-> requestArg]))
    /\ UNCHANGED <<adapter, facade, succeeded, latest, settling>>

VerifyPayment(via, paymentId) ==
    /\ Step("verifyPayment", via, [paymentId |-> paymentId],
            Delegate(via, "verifyPayment", [paymentId |-> paymentId]))
    /\ UNCHANGED <<adapter, facade, succeeded, latest, settling>>

RefundPayment(via, paymentId, amount) ==
    /\ Step("refundPayment", via, [paymentId |-> paymentId, amount |-> amount],
            Delegate(via, "refundPayment", [paymentId |-> paymentId, amount |-> amount]))
    /\ UNCHANGED <<adapter, facade, succeeded, latest, settling>>

ValidateWebhook(via, payload, headers) ==
    /\ Step("validateWebhook", via, [payload |-> payload, headers |-> headers],
            Delegate(via, "validateWebhook", [payload |-> payload, headers |-> headers]))
    /\ UNCHANGED <<adapter, facade, succeeded, latest, settling>>

\* validated (history): the step before was validateWebhook on the same target
\* with this payload, and it returned isValid true
ProcessWebhook(via, payload) ==
    /\ Step("processWebhook", via, [payload |-> payload],
            Delegate(via, "processWebhook", [payload |-> payload])
              @@ [validated |-> /\ last.op = "validateWebhook"
                                /\ last.via = via
                                /\ last.args.payload = payload
                                /\ last.outcome = "returned"
                                /\ last.result.isValid])
    /\ UNCHANGED <<adapter, facade, succeeded, latest, settling>>

\* mutant: a call whose adapter was given another configuration while the
\* request was in flight is abandoned with the not-initialized error
CompleteCall_AbandonedOnReinitialize(c, http) ==
    IF last.op = "initialize" /\ last.phase = "invoke" /\ last.via = c.via
          /\ last.rebinds
    THEN Throw(ErrAdapterNotInitialized)
    ELSE CASE c.op = "createPayment" -> createPaymentComplete(http)
           [] c.op = "verifyPayment" -> verifyPaymentComplete(http)
           [] c.op = "refundPayment" -> refundPaymentComplete(http, c.args.amount)

\* the code after the await of the pending call c, given the HTTP outcome
CompleteCall(c, http) ==
    CASE c.op = "createPayment" -> createPaymentComplete(http)
      [] c.op = "verifyPayment" -> verifyPaymentComplete(http)
      [] c.op = "refundPayment" -> refundPaymentComplete(http, c.args.amount)

\* mutant: a call whose request was rejected sends the request again
Complete_RetriesOnFailure(op, c, http) ==
    /\ c \in BagToSet(pending)
    /\ c.op = op
    /\ pending' = IF http.ok THEN pending (-) SetToBag({c}) ELSE pending
    /\ last' = [op |-> c.op, phase |-> "complete", via |-> c.via, args |-> c.args,
                http |-> http,
                reinitialized |-> /\ last.op = "initialize"
                                  /\ last.phase = "invoke"
                                  /\ last.via = c.via
                                  /\ last.rebinds]
               @@ CompleteCall(c, http)
    /\ UNCHANGED <<adapter, facade, succeeded, latest, settling>>

\* the HTTP outcome of a pending call of operation op arrives; reinitialized
\* (history): the step before was an initialize call on the target of the call
\* that installed another configuration
Complete(op, c, http) ==
    /\ c \in BagToSet(pending)
    /\ c.op = op
    /\ pending' = pending (-) SetToBag({c})
    /\ last' = [op |-> c.op, phase |-> "complete", via |-> c.via, args |-> c.args,
                http |-> http,
                reinitialized |-> /\ last.op = "initialize"
                                  /\ last.phase = "invoke"
                                  /\ last.via = c.via
                                  /\ last.rebinds]
               @@ CompleteCall(c, http)
    /\ UNCHANGED <<adapter, facade, succeeded, latest, settling>>

CompletePayment(c, http) == Complete("createPayment", c, http)

CompleteVerify(c, http) == Complete("verifyPayment", c, http)

CompleteRefund(c, http) == Complete("refundPayment", c, http)

-----------------------------------------------------------------------------
(* Specifications *)

\* the whole package: the adapter and the facade side by side, every
\* operation; the facade is initialized for Paytech with a configuration (the
\* other providers and the failing calls are in NextFacade)
Next ==
    \/ \E c \in CoreConfigArgs : AdapterInitialize(c)
    \/ \E c \in SideConfigArgs : FacadeInitialize(PAYTECH, c)
    \/ FacadeInitializeSettle
    \/ \E v \in Vias, r \in CoreRequestArgs : CreatePayment(v, r)
    \/ \E v \in Vias, id \in CorePaymentIdArgs : VerifyPayment(v, id)
    \/ \E v \in Vias, id \in CorePaymentIdArgs, a \in CoreAmountArgs : RefundPayment(v, id, a)
    \/ \E v \in Vias, p \in CorePayloadArgs, h \in CoreHeaderArgs : ValidateWebhook(v, p, h)
    \/ \E v \in Vias, p \in CorePayloadArgs : ProcessWebhook(v, p)
    \/ \E c \in BagToSet(pending), h \in CorePaymentOutcomes : CompletePayment(c, h)
    \/ \E c \in BagToSet(pending), h \in CoreVerifyOutcomes : CompleteVerify(c, h)
    \/ \E c \in BagToSet(pending), h \in CoreRefundOutcomes : CompleteRefund(c, h)

Spec == Init /\ [][Next]_vars

\* the facade alone: initialize for every provider, and every delegate method
NextFacade ==
    \/ \E p \in Providers, c \in CoreConfigArgs : FacadeInitialize(p, c)
    \/ FacadeInitializeSettle
    \/ \E r \in CoreRequestArgs : CreatePayment("facade", r)
    \/ \E id \in CorePaymentIdArgs : VerifyPayment("facade", id)
    \/ \E id \in CorePaymentIdArgs, a \in CoreAmountArgs : RefundPayment("facade", id, a)
    \/ \E p \in CorePayloadArgs, h \in CoreHeaderArgs : ValidateWebhook("facade", p, h)
    \/ \E p \in CorePayloadArgs : ProcessWebhook("facade", p)
    \/ \E c \in BagToSet(pending), h \in CorePaymentOutcomes : CompletePayment(c, h)
    \/ \E c \in BagToSet(pending), h \in CoreVerifyOutcomes : CompleteVerify(c, h)
    \/ \E c \in BagToSet(pending), h \in CoreRefundOutcomes : CompleteRefund(c, h)

SpecFacade == Init /\ [][NextFacade]_vars

\* the adapter's three HTTP operations over every request and HTTP outcome
NextCalls ==
    \/ \E c \in CallConfigArgs : AdapterInitialize(c)
    \/ \E r \in RequestArgs : CreatePayment("adapter", r)
    \/ \E id \in PaymentIdArgs : VerifyPayment("adapter", id)
    \/ \E id \in PaymentIdArgs, a \in AmountArgs : RefundPayment("adapter", id, a)
    \/ \E c \in BagToSet(pending), h \in Resolved(PaymentDatas) \cup Rejected :
          CompletePayment(c, h)
    \/ \E c \in BagToSet(pending), h \in Resolved(StatusDatas) \cup Rejected :
          CompleteVerify(c, h)
    \/ \E c \in BagToSet(pending), h \in Resolved(RefundDatas) \cup Rejected :
          CompleteRefund(c, h)

SpecCalls == Init /\ [][NextCalls]_vars

\* the adapter's webhook operations over every payload and header set
NextWebhook ==
    \/ \E c \in ConfigArgs : AdapterInitialize(c)
    \/ \E p \in PayloadArgs : \E h \in HeaderArgsFor(p) : ValidateWebhook("adapter", p, h)
    \/ \E p \in PayloadArgs : ProcessWebhook("adapter", p)

SpecWebhook == Init /\ [][NextWebhook]_vars

-----------------------------------------------------------------------------
(* Properties *)

HttpOps == {"createPayment", "verifyPayment", "refundPayment"}

DelegateOps == HttpOps \cup {"validateWebhook", "processWebhook"}

\* the last step ran operation op up to its HTTP request, or to its end
Invoked(op) == last.phase = "invoke" /\ last.op = op

\* the last step ran operation op from the arrival of its HTTP outcome
Completed(op) == last.phase = "complete" /\ last.op = op

\* C1: on an adapter that is not initialized, createPayment, verifyPayment and
\* refundPayment throw "Gateway not initialized" whatever their arguments, and
\* a call that sends an HTTP request was made on an initialized adapter
C1_UninitializedAdapterThrows ==
    (last.phase = "invoke" /\ last.op \in HttpOps) =>
        /\ (last.reached /\ ~last.initialized) =>
              (last.outcome = "threw" /\ last.error = ErrAdapterNotInitialized)
        /\ last.outcome = "sent" => last.initialized

\* createPayment(null) on the adapter before initialize threw the
\* not-initialized error, not the TypeError of reading the request
C1_Witness ==
    /\ Invoked("createPayment")
    /\ last.via = "adapter"
    /\ ~last.initialized
    /\ last.args.request = None
    /\ last.outcome = "threw"
    /\ last.error = ErrAdapterNotInitialized

\* C2: as long as no initialize call on the facade has succeeded, every
\* delegate method of the facade raises "Payment gateway not initialized" and
\* reaches no adapter
C2_FacadeRaisesUntilInitializeSucceeds ==
    (last.phase = "invoke" /\ last.via = "facade" /\ last.op \in DelegateOps
        /\ ~succeeded) =>
        /\ last.outcome = "threw"
        /\ last.error = ErrFacadeNotInitialized
        /\ ~last.reached

\* the preconditions of createPayment on its request
RequestPreconditions(requestArg) ==
    /\ requestArg # None
    /\ TruthyStr(requestArg[1], "reference")
    /\ TruthyStr(requestArg[1], "description")
    /\ Has(requestArg[1], "amount")
    /\ requestArg[1].amount > 0
    /\ Has(requestArg[1], "currency")
    /\ ToUpperCase(requestArg[1].currency) \in PAYTECH_CURRENCIES

PaymentIdGiven(paymentId) == paymentId # None /\ paymentId # Some("")

\* C3: createPayment sends an HTTP request only when reference and
\* description are present, amount > 0 and the currency is supported;
\* verifyPayment and refundPayment only when the payment id is given; a call
\* whose precondition fails throws
C3_NoHttpCallUnlessPreconditionsHold ==
    /\ Invoked("createPayment") =>
          /\ last.outcome = "sent" => RequestPreconditions(last.args.request)
          /\ ~RequestPreconditions(last.args.request) => last.outcome = "threw"
    /\ (Invoked("verifyPayment") \/ Invoked("refundPayment")) =>
          /\ last.outcome = "sent" => PaymentIdGiven(last.args.paymentId)
          /\ ~PaymentIdGiven(last.args.paymentId) => last.outcome = "threw"

\* createPayment with amount 0 on an initialized adapter threw "Invalid amount"
C3_Witness ==
    /\ Invoked("createPayment")
    /\ last.initialized
    /\ last.args.request # None
    /\ TruthyStr(last.args.request[1], "reference")
    /\ TruthyStr(last.args.request[1], "description")
    /\ Has(last.args.request[1], "amount")
    /\ last.args.request[1].amount = 0
    /\ last.outcome = "threw"
    /\ last.error = ErrInvalidAmount

\* the HTTP request was answered with a success flag of 1
HttpSucceeded(http) ==
    http.ok /\ Has(http, "data") /\ Has(http.data, "success") /\ http.data.success = 1

\* the HTTP client rejected with null or undefined
NullishRejection(http) == ~http.ok /\ http.error.nullish

\* C4: past their preconditions createPayment and refundPayment return a
\* result for every outcome of the HTTP request (a response, an HTTP error
\* response with or without a body, a transport error, a rejection that is no
\* Error), and on a failure the result has success = false and status = failed
C4_PaymentAndRefundNeverThrow ==
    ((Completed("createPayment") \/ Completed("refundPayment"))
        /\ ~NullishRejection(last.http)) =>
        /\ last.outcome = "returned"
        /\ ~HttpSucceeded(last.http) =>
              (last.result.success = FALSE /\ last.result.status = FAILED)

\* the messages an HTTP rejection of the model can carry into an error
FailureMessages ==
    {"Unknown error"}
    \cup {e.message : e \in {x \in Rejections : ~x.nullish /\ Has(x, "message")}}

\* the rejection is an HTTP error response of status 404
NotFound(e) == e.isAxiosError /\ Has(e, "response") /\ e.response.status = 404

\* C5: when the HTTP request of verifyPayment fails, the call returns failed
\* for an HTTP 404 response, and throws "Failed to verify payment" for a
\* transport error or an HTTP error response of another status
C5_VerifyThrowsExceptOnNotFound ==
    (Completed("verifyPayment") /\ ~last.http.ok /\ ~last.http.error.nullish) =>
        IF NotFound(last.http.error)
        THEN last.outcome = "returned" /\ last.result = FAILED
        ELSE /\ last.outcome = "threw"
             /\ last.error \in {"Failed to verify payment: " \o m : m \in FailureMessages}

\* verifyPayment returned failed on an HTTP 404 response
C5_Witness ==
    /\ Completed("verifyPayment")
    /\ ~last.http.ok
    /\ ~last.http.error.nullish
    /\ NotFound(last.http.error)
    /\ last.outcome = "returned"
    /\ last.result = FAILED

\* the payload has each of the required fields token, ref_command, type, status
PayloadComplete(payload) ==
    /\ payload # None
    /\ \A f \in {"token", "ref_command", "type", "status"} : TruthyStr(payload[1], f)

\* the signature header of the request under either casing of its name
ClaimedSignature(headers) ==
    IF headers = None THEN None
    ELSE IF TruthyStr(headers[1], "x-paytech-signature")
    THEN Some(headers[1]["x-paytech-signature"])
    ELSE IF TruthyStr(headers[1], "X-Paytech-Signature")
    THEN Some(headers[1]["X-Paytech-Signature"])
    ELSE None

\* a webhook secret is configured on the adapter that validated
SecretConfigured == last.secret # None /\ last.secret # Some("")

\* C6: with a webhook secret configured, validateWebhook answers valid only
\* for a complete payload whose signature header, under either casing, is the
\* HMAC-SHA256 of the payload's canonical form (keys sorted, key=value joined
\* with &) under the secret; without the header the reason is "Missing
\* signature header", with another signature "Invalid signature"
C6_SignatureRequiredWithSecret ==
    /\ PayloadString(MinimalPayload)
          = "ref_command=order-123&status=completed&token=payment-123&type=payment_success"
    /\ (Invoked("validateWebhook") /\ SecretConfigured
          /\ PayloadComplete(last.args.payload) /\ last.args.headers # None) =>
          LET sig == ClaimedSignature(last.args.headers)
              expected == HmacSha256Hex(last.secret[1],
                                        PayloadString(last.args.payload[1]))
          IN  /\ last.outcome = "returned"
              /\ last.result.isValid <=> (sig # None /\ sig[1] = expected)
              /\ sig = None =>
                    last.result = [isValid |-> FALSE,
                                   reason |-> "Missing signature header"]
              /\ (sig # None /\ sig[1] # expected) =>
                    last.result = [isValid |-> FALSE, reason |-> "Invalid signature"]
    /\ (Invoked("validateWebhook") /\ SecretConfigured
          /\ last.outcome = "returned" /\ last.result.isValid) =>
          PayloadComplete(last.args.payload)

\* a payload signed under the configured secret, the signature under the
\* header name X-Paytech-Signature, was found valid
C6_Witness ==
    /\ Invoked("validateWebhook")
    /\ SecretConfigured
    /\ PayloadComplete(last.args.payload)
    /\ last.args.headers # None
    /\ ~Has(last.args.headers[1], "x-paytech-signature")
    /\ Has(last.args.headers[1], "X-Paytech-Signature")
    /\ last.outcome = "returned"
    /\ last.result = [isValid |-> TRUE]

\* C7: validateWebhook rejects an absent payload with "Empty payload" and a
\* payload that lacks a required field with "Missing required field: X", X a
\* field it lacks, whatever the secret and the headers
C7_IncompletePayloadRejected ==
    (Invoked("validateWebhook") /\ last.reached) =>
        /\ last.args.payload = None =>
              /\ last.outcome = "returned"
              /\ last.result = [isValid |-> FALSE, reason |-> "Empty payload"]
        /\ (last.args.payload # None /\ ~PayloadComplete(last.args.payload)) =>
              /\ last.outcome = "returned"
              /\ ~last.result.isValid
              /\ \E f \in {"token", "ref_command", "type", "status"} :
                    /\ ~Has(last.args.payload[1], f)
                         \/ last.args.payload[1][f] = ""
                    /\ last.result.reason = "Missing required field: " \o f

\* a payload without status was rejected by name, with a secret configured
\* and a null headers object
C7_Witness ==
    /\ Invoked("validateWebhook")
    /\ SecretConfigured
    /\ last.args.headers = None
    /\ last.args.payload # None
    /\ DOMAIN last.args.payload[1] = {"token", "ref_command", "type"}
    /\ last.outcome = "returned"
    /\ last.result = [isValid |-> FALSE, reason |-> "Missing required field: status"]

\* C8: without a webhook secret (none given, or an empty one), validateWebhook
\* answers valid, with no reason, for every complete payload, whatever the
\* headers
C8_NoSecretAcceptsCompletePayload ==
    (Invoked("validateWebhook") /\ last.reached /\ ~SecretConfigured
        /\ PayloadComplete(last.args.payload)) =>
        /\ last.outcome = "returned"
        /\ last.result = [isValid |-> TRUE]

\* without a secret, on an initialized adapter, a payload that came with a
\* wrong signature was found valid
C8_Witness ==
    /\ Invoked("validateWebhook")
    /\ last.initialized
    /\ last.secret = None
    /\ PayloadComplete(last.args.payload)
    /\ last.args.headers = Some("x-paytech-signature" :> "invalid-signature")
    /\ last.outcome = "returned"
    /\ last.result = [isValid |-> TRUE]

\* C9: a PaymentResponse returned by createPayment with success = false has
\* status failed and a message that is not empty
C9_FailedPaymentHasStatusAndMessage ==
    (Completed("createPayment") /\ last.outcome = "returned"
        /\ ~last.result.success) =>
        /\ last.result.status = FAILED
        /\ Has(last.result, "message")
        /\ last.result.message # ""

\* a response with flag 0 and no error field gave the fallback message
C9_Witness ==
    /\ Completed("createPayment")
    /\ last.http = [ok |-> TRUE, data |-> [success |-> 0]]
    /\ last.outcome = "returned"
    /\ ~last.result.success
    /\ last.result.message = "Unknown error occurred"

\* C10: the response mapper gives, for a success flag of 1, success, status
\* pending, the redirect URL and the token of the response, and the token as
\* payment id; for any other flag, failure, status failed and the error field
\* as message, or the fallback literal when the field is absent or empty
C10_ResponseMapper ==
    (Completed("createPayment") /\ last.http.ok /\ Has(last.http, "data")) =>
        LET d == last.http.data
            r == last.result
        IN  /\ last.outcome = "returned"
            /\ IF Has(d, "success") /\ d.success = 1
               THEN /\ r.success
                    /\ r.status = PENDING
                    /\ Field(r, "redirectUrl") = Field(d, "redirect_url")
                    /\ Field(r, "token") = Field(d, "token")
                    /\ Field(r, "paymentId") = Field(d, "token")
               ELSE /\ ~r.success
                    /\ r.status = FAILED
                    /\ r.message = IF Has(d, "error") /\ d.error # ""
                                   THEN d.error
                                   ELSE "Unknown error occurred"

\* a response with flag 2, an error and a token was mapped to a failure
C10_Witness ==
    /\ Completed("createPayment")
    /\ last.http.ok
    /\ Has(last.http, "data")
    /\ Has(last.http.data, "success")
    /\ last.http.data.success = 2
    /\ last.outcome = "returned"
    /\ ~last.result.success
    /\ last.result.message = "Invalid currency"
    /\ ~Has(last.result, "token")

\* the HTTP call resolved with a response that has a body
HttpResolved(http) == http.ok /\ Has(http, "data")

\* the spellings of the provider statuses, each under its canonical status
StatusSpellings ==
    [completed |-> {"completed", "COMPLETED", "success", "Success"},
     pending |-> {"pending", "Pending", "pEnDiNg", "waiting"},
     canceled |-> {"canceled", "cancelled", "CANCELLED"},
     refunded |-> {"refunded", "Refunded"}]

\* the canonical status the status table gives a status response
TableStatus(data) ==
    IF Has(data, "success") /\ data.success = 0 THEN FAILED
    ELSE IF ~Has(data, "status") THEN FAILED
    ELSE IF data.status \in StatusSpellings.completed THEN COMPLETED
    ELSE IF data.status \in StatusSpellings.pending THEN PENDING
    ELSE IF data.status \in StatusSpellings.canceled THEN CANCELED
    ELSE IF data.status \in StatusSpellings.refunded THEN REFUNDED
    ELSE FAILED

\* C11: for every status response that carries a success flag, with a status
\* string in any casing or without one, verifyPayment returns the canonical
\* status of the table (completed/success, pending/waiting, canceled/cancelled,
\* refunded, anything else failed) and a flag of 0 gives failed whatever the
\* status string; the mapper never throws
C11_StatusMapperTotal ==
    (Completed("verifyPayment") /\ HttpResolved(last.http)
        /\ Has(last.http.data, "success")) =>
        /\ last.outcome = "returned"
        /\ last.result \in {PENDING, COMPLETED, FAILED, CANCELED, REFUNDED}
        /\ last.result = TableStatus(last.http.data)

C11_Witness ==
    /\ Completed("verifyPayment") /\ HttpResolved(last.http)
    /\ last.http.data = [success |-> 0, status |-> "completed"]
    /\ last.outcome = "returned" /\ last.result = FAILED

\* the caller of refundPayment asked for an amount: one was given and is not 0
AmountRequested(amount) == amount # None /\ amount[1] # 0

\* the numbers that the amount strings of the provider stand for
ReportedNumber == ("5000" :> Num(5000)) @@ ("2000" :> Num(2000)) @@ ("abc" :> NaN)

\* C12: in a successful refund result the amount is the amount the caller
\* asked for when one was given, whatever amount the provider reports, and
\* otherwise the number the provider's amount string stands for (no amount
\* when the provider reports none)
C12_RefundAmountPrecedence ==
    (Completed("refundPayment") /\ HttpSucceeded(last.http)) =>
        /\ last.outcome = "returned" /\ last.result.success
        /\ IF AmountRequested(last.args.amount)
           THEN Has(last.result, "amount")
                  /\ last.result.amount = Num(last.args.amount[1])
           ELSE IF Has(last.http.data, "amount")
           THEN Has(last.result, "amount")
                  /\ last.result.amount = ReportedNumber[last.http.data.amount]
           ELSE ~Has(last.result, "amount")

C12_Witness ==
    /\ Completed("refundPayment") /\ HttpSucceeded(last.http)
    /\ last.args.amount = Some(2000)
    /\ Has(last.http.data, "amount") /\ last.http.data.amount = "5000"
    /\ last.result.amount = Num(2000)

\* the URL fields: of the request, of the wire request, of the configuration
UrlFields ==
    {[request |-> "webhookUrl", wire |-> "ipn_url", default |-> "defaultIpnUrl"],
     [request |-> "returnUrl", wire |-> "success_url", default |-> "defaultSuccessUrl"],
     [request |-> "cancelUrl", wire |-> "cancel_url", default |-> "defaultCancelUrl"]}

\* C13: in the request createPayment sends, each of the webhook, success and
\* cancel URLs is the request's own URL whenever the request supplied one
\* (a non-empty string), and the default of the configuration only when the
\* request supplied none and a default is configured
C13_RequestUrlsTakePrecedence ==
    (Invoked("createPayment") /\ last.via = "adapter" /\ last.outcome = "sent") =>
        \A f \in UrlFields :
            LET request == last.args.request[1]
                body == last.wire.body
            IN  IF TruthyStr(request, f.request)
                THEN Has(body, f.wire) /\ body[f.wire] = request[f.request]
                ELSE IF TruthyStr(adapter.config, f.default)
                THEN Has(body, f.wire) /\ body[f.wire] = adapter.config[f.default]
                ELSE ~TruthyStr(body, f.wire)

C13_Witness ==
    /\ Invoked("createPayment") /\ last.via = "adapter" /\ last.outcome = "sent"
    /\ Has(last.args.request[1], "webhookUrl")
    /\ ~Has(last.args.request[1], "returnUrl")
    /\ Has(adapter.config, "defaultIpnUrl")
    /\ last.wire.body.ipn_url = "https://req/webhook"
    /\ last.wire.body.success_url = "https://cfg/success"

\* the default URL that configuration c sets under additionalConfig, if any
ConfiguredDefault(c, default) ==
    IF Has(c, "additionalConfig") THEN Field(c.additionalConfig, default) ELSE None

\* adapter g holds the credentials, webhook secret and defaults of
\* configuration c, and none besides
ConfiguredBy(g, c) ==
    /\ g.initialized
    /\ g.config.apiKey = c.apiKey /\ g.config.apiSecret = c.apiSecret
    /\ Field(g.config, "webhookSecret") = Field(c, "webhookSecret")
    /\ \A f \in UrlFields : Field(g.config, f.default) = ConfiguredDefault(c, f.default)

\* C14: an initialize call that returns on a facade holding an initialized
\* adapter leaves the facade holding one adapter, configured by this call's
\* configuration alone; every request a delegate call sends afterwards carries
\* the credentials of the latest initialize call that succeeded and fills missing
\* URLs with that call's defaults only, and validateWebhook uses its secret
C14_ReinitializeReplacesAdapter ==
    /\ (Invoked("initialize") /\ last.via = "facade" /\ last.outcome = "returned"
            /\ last.previous # None /\ last.previous[1].initialized) =>
          /\ facade.gateway # None /\ latest = last.args
          /\ ConfiguredBy(facade.gateway[1], last.args[1])
    /\ (last.phase = "invoke" /\ last.op \in HttpOps /\ last.via = "facade"
            /\ last.outcome = "sent") =>
          /\ latest # None
          /\ last.wire.headers["API_KEY"] = latest[1].apiKey
          /\ last.wire.headers["API_SECRET"] = latest[1].apiSecret
          /\ last.op = "createPayment" =>
                \A f \in UrlFields :
                    ~Has(last.args.request[1], f.request) =>
                        Field(last.wire.body, f.wire) = ConfiguredDefault(latest[1], f.default)
    /\ (Invoked("validateWebhook") /\ last.via = "facade" /\ last.initialized) =>
          /\ latest # None
          /\ last.secret = Field(latest[1], "webhookSecret")

C14_Witness ==
    /\ Invoked("initialize") /\ last.via = "facade" /\ last.outcome = "returned"
    /\ last.previous # None /\ last.previous[1].initialized
    /\ Has(last.previous[1].config, "defaultIpnUrl")
    /\ last.previous[1].config.apiKey = "key-B"
    /\ facade.gateway[1].config.apiKey = "key-A"
    /\ ~Has(facade.gateway[1].config, "defaultIpnUrl")

\* C15: initialize on the facade for Cinetpay, MoneyFusion or an unknown
\* provider throws, and the facade holds the adapter it held before the call
\* (none, if it held none): no adapter is installed for that provider
C15_UnimplementedProviderThrows ==
    (Invoked("initialize") /\ last.via = "facade" /\ last.provider # PAYTECH) =>
        /\ last.outcome = "threw"
        /\ facade.gateway = last.previous

C15_Witness ==
    /\ Invoked("initialize") /\ last.via = "facade"
    /\ last.provider = MONEY_FUSION
    /\ last.outcome = "threw" /\ facade.gateway = None

\* C16: getProvider() is not null only when the facade holds an adapter, and
\* then it names the provider of that adapter (the one adapter class is the
\* Paytech one)
C16_ProviderNamesInstalledAdapter ==
    getProvider(facade) # None =>
        /\ facade.gateway # None
        /\ getProvider(facade) = Some(PAYTECH)

\* every precondition of the call recorded in l holds: the adapter was
\* initialized and the arguments are valid
PreconditionsPass(l) ==
    /\ l.initialized
    /\ IF l.op = "createPayment"
       THEN RequestPreconditions(l.args.request)
       ELSE PaymentIdGiven(l.args.paymentId)

\* C17: a step that invokes createPayment, verifyPayment or refundPayment
\* issues exactly one HTTP request when every precondition passes and none
\* otherwise, and the step that handles the outcome of a request, whatever the
\* outcome, ends that request and issues no other
C17_AtMostOneHttpCall ==
    [][/\ (last'.phase = "invoke" /\ last'.op \in HttpOps) =>
            BagCardinality(pending') =
                BagCardinality(pending) + (IF PreconditionsPass(last') THEN 1 ELSE 0)
       /\ last'.phase = "complete" =>
            BagCardinality(pending') = BagCardinality(pending) - 1]_vars

\* a rejected refund request was turned into a result and nothing is in flight
C17_Witness ==
    /\ Completed("refundPayment") /\ ~last.http.ok
    /\ last.outcome = "returned" /\ ~last.result.success
    /\ pending = EmptyBag

\* C18: no step of createPayment, verifyPayment, refundPayment, validateWebhook
\* or processWebhook, whether it runs the call up to its request or handles the
\* outcome of a request while other calls are under way, changes the
\* configuration or the initialized flag of the adapter it runs on
C18_ConfigurationReadOnly ==
    [][last'.op \in DelegateOps =>
            /\ adapter' = adapter
            /\ facade'.gateway = facade.gateway]_vars

\* two HTTP calls overlapped on one adapter: a payment completed while a
\* refund sent on the same adapter was still in flight
C18_Witness ==
    /\ Completed("createPayment") /\ last.via = "adapter"
    /\ last.outcome = "returned"
    /\ \E c \in BagToSet(pending) : c.op = "refundPayment" /\ c.via = "adapter"
    /\ adapter.initialized

\* the custom field the request mapper makes of metadata m
CustomFieldOf(m) ==
    mapToPaytechRequest(ValidRequest @@ [metadata |-> m], Some("test")).custom_field

\* C19: a webhook payload whose custom_field is the custom field the request
\* mapper made of metadata M gives, through the webhook event mapper, an event
\* whose metadata is M
C19_MetadataRoundTrip ==
    (Invoked("processWebhook") /\ last.args.payload # None
        /\ Has(last.args.payload[1], "status")
        /\ Has(last.args.payload[1], "custom_field")) =>
        \A m \in Metadatas :
            last.args.payload[1].custom_field = CustomFieldOf(m) =>
                /\ last.outcome = "returned"
                /\ last.result.data.metadata = m

C19_Witness ==
    /\ Invoked("processWebhook") /\ last.args.payload # None
    /\ Has(last.args.payload[1], "custom_field")
    /\ last.args.payload[1].custom_field = CustomFieldOf(MetaNote)
    /\ last.outcome = "returned"
    /\ last.result.data.metadata = MetaNote

\* C20: the webhook event mapper produces the event when the custom field is
\* not JSON text, with metadata { raw: the custom field }, and with empty
\* metadata when the payload has no custom field
C20_MalformedMetadataKeptRaw ==
    (Invoked("processWebhook") /\ last.args.payload # None
        /\ Has(last.args.payload[1], "status")) =>
        LET payload == last.args.payload[1]
        IN  /\ (Has(payload, "custom_field")
                    /\ payload.custom_field \in MalformedCustomFields) =>
                  /\ last.outcome = "returned"
                  /\ last.result.data.metadata =
                        <<[k |-> "raw", t |-> "string", v |-> payload.custom_field]>>
            /\ ~Has(payload, "custom_field") =>
                  /\ last.outcome = "returned"
                  /\ last.result.data.metadata = <<>>

C20_Witness ==
    /\ Invoked("processWebhook") /\ last.args.payload # None
    /\ Has(last.args.payload[1], "custom_field")
    /\ last.args.payload[1].custom_field = "{\"a\":1"
    /\ last.outcome = "returned"
    /\ last.result.data.metadata = <<[k |-> "raw", t |-> "string", v |-> "{\"a\":1"]>>

\* the event type that the table of event types gives a provider type string
TableEventType(type) ==
    IF type = "payment_success" THEN "payment.success"
    ELSE IF type \in {"payment_failed", "payment_canceled"} THEN "payment.failed"
    ELSE IF type = "refund_success" THEN "refund.success"
    ELSE IF type = "refund_failed" THEN "refund.failed"
    ELSE "payment.success"

\* C21: for every event-type string of a payload, the webhook event mapper
\* produces an event whose type is payment success for payment_success,
\* payment failed for payment_failed and payment_canceled, refund success for
\* refund_success, refund failed for refund_failed, and payment success for
\* every other string
C21_EventTypeMapperTotal ==
    (Invoked("processWebhook") /\ last.args.payload # None
        /\ Has(last.args.payload[1], "status")
        /\ Has(last.args.payload[1], "type")) =>
        /\ last.outcome = "returned"
        /\ last.result.type = TableEventType(last.args.payload[1].type)

C21_Witness ==
    /\ Invoked("processWebhook") /\ last.args.payload # None
    /\ Has(last.args.payload[1], "type")
    /\ last.args.payload[1].type = "payment_canceled"
    /\ last.outcome = "returned" /\ last.result.type = "payment.failed"

\* C22 as the specification states it: the request createPayment sends
\* carries the reference of the request in both ref_command and command_name,
\* the description in item_name and the amount as its decimal text
C22_ReferenceDuplicated ==
    (Invoked("createPayment") /\ last.outcome = "sent") =>
        LET request == last.args.request[1]
            body == last.wire.body
        IN  /\ body.ref_command = request.reference
            /\ body.command_name = request.reference
            /\ body.item_name = request.description
            /\ body.item_price = ToString(request.amount)

\* C22 amended: the request createPayment sends carries the reference of the
\* request in ref_command alone, the description in both item_name and
\* command_name, and the amount as its decimal text
C22_DescriptionDuplicated ==
    (Invoked("createPayment") /\ last.outcome = "sent") =>
        LET request == last.args.request[1]
            body == last.wire.body
        IN  /\ body.ref_command = request.reference
            /\ body.command_name = request.description
            /\ body.item_name = request.description
            /\ body.item_price = ToString(request.amount)
            /\ request.reference # request.description =>
                  \A f \in DOMAIN body \ {"ref_command"} : body[f] # request.reference

C22_Witness ==
    /\ Invoked("createPayment") /\ last.outcome = "sent"
    /\ last.args.request[1].reference = "order-123"
    /\ last.args.request[1].description = "Test payment"
    /\ last.args.request[1].amount = 250
    /\ last.wire.body.ref_command = "order-123"
    /\ last.wire.body.command_name = "Test payment"
    /\ last.wire.body.item_name = "Test payment"
    /\ last.wire.body.item_price = "250"

\* the spellings of the supported currency codes among the codes of the model
SupportedSpellings ==
    {"XOF", "xof", "Xof", "EUR", "eur", "eUr", "USD", "usd", "CAD", "cad",
     "GBP", "gbP", "MAD", "mad"}

\* the request passes every check that createPayment makes before the currency
ValidButForCurrency(requestArg) ==
    /\ requestArg # None
    /\ TruthyStr(requestArg[1], "reference")
    /\ TruthyStr(requestArg[1], "description")
    /\ Has(requestArg[1], "amount") /\ requestArg[1].amount > 0
    /\ Has(requestArg[1], "currency")

\* C23: the currency check of createPayment accepts XOF, EUR, USD, CAD, GBP and
\* MAD in any letter casing and rejects every other code with
\* "Unsupported currency: <code>"
C23_CurrencyAnyCasing ==
    (Invoked("createPayment") /\ last.initialized
        /\ ValidButForCurrency(last.args.request)) =>
        LET code == last.args.request[1].currency
        IN  IF code \in SupportedSpellings
            THEN last.outcome = "sent"
            ELSE last.outcome = "threw"
                   /\ last.error = "Unsupported currency: " \o code

C23_Witness ==
    /\ Invoked("createPayment") /\ last.initialized
    /\ ValidButForCurrency(last.args.request)
    /\ last.args.request[1].currency = "gbP"
    /\ last.outcome = "sent"

\* C24: createPayment reports the first precondition that fails, in the order
\* initialization, reference and description, amount, currency; a request
\* without reference or description gets the missing-fields error whatever its
\* amount and currency
C24_PreconditionOrder ==
    (Invoked("createPayment") /\ last.via = "adapter" /\ last.args.request # None) =>
        LET request == last.args.request[1]
            complete == TruthyStr(request, "reference") /\ TruthyStr(request, "description")
            positive == Has(request, "amount") /\ request.amount > 0
        IN  /\ ~last.initialized =>
                  last.outcome = "threw" /\ last.error = ErrAdapterNotInitialized
            /\ (last.initialized /\ ~complete) =>
                  last.outcome = "threw" /\ last.error = ErrMissingFields
            /\ (last.initialized /\ complete /\ ~positive) =>
                  last.outcome = "threw" /\ last.error = ErrInvalidAmount
            /\ (last.initialized /\ complete /\ positive /\ Has(request, "currency")
                    /\ request.currency \notin SupportedSpellings) =>
                  /\ last.outcome = "threw"
                  /\ last.error = "Unsupported currency: " \o request.currency

\* a request without reference, with amount 0 and an unsupported currency, got
\* the missing-fields error
C24_Witness ==
    /\ Invoked("createPayment") /\ last.initialized /\ last.args.request # None
    /\ ~Has(last.args.request[1], "reference")
    /\ Has(last.args.request[1], "amount") /\ last.args.request[1].amount = 0
    /\ Has(last.args.request[1], "currency")
    /\ last.args.request[1].currency = "INVALID"
    /\ last.outcome = "threw" /\ last.error = ErrMissingFields

\* C25: the refund request carries the payment id as token, and an amount
\* exactly when the caller passed an amount greater than 0, then that amount;
\* without an amount, with 0 or with a negative amount the body is { token }
C25_RefundRequestBody ==
    (Invoked("refundPayment") /\ last.outcome = "sent") =>
        LET id == last.args.paymentId[1]
            amount == last.args.amount
        IN  /\ last.wire.url = REFUND
            /\ IF amount # None /\ amount[1] > 0
               THEN last.wire.body = [token |-> id, amount |-> amount[1]]
               ELSE last.wire.body = [token |-> id]

C25_Witness ==
    /\ Invoked("refundPayment") /\ last.outcome = "sent"
    /\ last.args.amount = Some(-5)
    /\ last.wire.body = [token |-> "payment-123"]

\* C26: for every status string of a webhook payload, the webhook event
\* mapper produces the event, and the status of the event is the status that
\* the status mapper gives a status response with success = 1 and the same
\* status string
C26_WebhookStatusAsStatusMapper ==
    (Invoked("processWebhook") /\ last.args.payload # None
        /\ Has(last.args.payload[1], "status")) =>
        /\ last.outcome = "returned"
        /\ last.result.data.status =
              mapPaytechStatus([success |-> 1, status |-> last.args.payload[1].status])

C26_Witness ==
    /\ Invoked("processWebhook") /\ last.args.payload # None
    /\ Has(last.args.payload[1], "status")
    /\ last.args.payload[1].status = "WAITING"
    /\ last.outcome = "returned"
    /\ last.result.data.status = PENDING

\* C27: the currency code of every payment request createPayment sends is
\* literally one of XOF, EUR, USD, CAD, GBP, MAD
C27_WireCurrencySupported ==
    (Invoked("createPayment") /\ last.outcome = "sent") =>
        last.wire.body.currency \in PAYTECH_CURRENCIES

\* C28: in a successful refund result the amount agrees with the request that
\* was sent: the amount of the request when it carried one (an amount above 0
\* was passed), and otherwise the amount the provider reports, or none
C28_RefundAmountAsSent ==
    (Completed("refundPayment") /\ HttpSucceeded(last.http)) =>
        LET amount == last.args.amount
            carried == amount # None /\ amount[1] > 0
        IN  /\ last.outcome = "returned"
            /\ IF carried
               THEN Has(last.result, "amount") /\ last.result.amount = Num(amount[1])
               ELSE IF Has(last.http.data, "amount")
               THEN Has(last.result, "amount")
                      /\ last.result.amount = ReportedNumber[last.http.data.amount]
               ELSE ~Has(last.result, "amount")

\* C29: when validateWebhook has returned valid for a payload, processWebhook
\* on the same payload returns an event, of gateway paytech, whose reference is
\* the payload's ref_command and whose paymentId is the payload's token
C29_ValidatedPayloadIsProcessed ==
    (Invoked("processWebhook") /\ last.validated) =>
        /\ last.outcome = "returned"
        /\ last.result.gatewayName = "paytech"
        /\ Has(last.result.data, "reference")
        /\ last.result.data.reference = last.args.payload[1].ref_command
        /\ Has(last.result.data, "paymentId")
        /\ last.result.data.paymentId = last.args.payload[1].token

C29_Witness ==
    /\ Invoked("processWebhook") /\ last.validated
    /\ last.secret = Some("whsec")
    /\ last.args.payload = Some(MinimalPayload)
    /\ last.outcome = "returned"
    /\ last.result.data.reference = "order-123"
    /\ last.result.data.paymentId = "payment-123"

\* the HTTP outcome is one the code after the await turns into a result: a
\* response with a body, or a rejection that is an error value and, when it
\* is an HTTP error response, has a body
HttpHandled(http) ==
    IF http.ok THEN Has(http, "data")
    ELSE ~http.error.nullish
           /\ (IsHttpError(http.error) => Has(http.error.response, "data"))

\* C30: a createPayment, verifyPayment or refundPayment call is bound to the
\* configuration in force when it is invoked. The request it sends carries the
\* credentials of that configuration, its environment tag and, for the URLs the
\* payment request leaves out, its default URLs; and whenever the response
\* arrives, also right after an initialize call gave the adapter or the facade
\* another configuration, the result is the one the response and the arguments
\* of the call determine
C30_CallBoundAtInvocation ==
    /\ (last.phase = "invoke" /\ last.op \in HttpOps /\ last.outcome = "sent") =>
          LET config == Target(last.via)[1].config
          IN  /\ last.wire.headers["API_KEY"] = config.apiKey
              /\ last.wire.headers["API_SECRET"] = config.apiSecret
              /\ last.op = "createPayment" =>
                    /\ last.wire.body.env =
                          (IF Field(config, "environment") = Some("production")
                           THEN PAYTECH_ENVIRONMENT_PRODUCTION
                           ELSE PAYTECH_ENVIRONMENT_TEST)
                    /\ \A f \in UrlFields :
                          ~TruthyStr(last.args.request[1], f.request) =>
                              IF TruthyStr(config, f.default)
                              THEN Field(last.wire.body, f.wire) = Some(config[f.default])
                              ELSE ~TruthyStr(last.wire.body, f.wire)
    /\ ((Completed("createPayment") \/ Completed("refundPayment"))
            /\ HttpHandled(last.http)) =>
          /\ last.outcome = "returned"
          /\ last.result.success = HttpSucceeded(last.http)
          /\ (Completed("createPayment") /\ HttpSucceeded(last.http)) =>
                /\ Field(last.result, "paymentId") = Field(last.http.data, "token")
                /\ Field(last.result, "redirectUrl") =
                      Field(last.http.data, "redirect_url")
          /\ (Completed("refundPayment") /\ HttpSucceeded(last.http)
                  /\ AmountRequested(last.args.amount)) =>
                last.result.amount = Num(last.args.amount[1])
    /\ (Completed("verifyPayment") /\ HttpResolved(last.http)
            /\ Has(last.http.data, "success")) =>
          /\ last.outcome = "returned"
          /\ last.result = TableStatus(last.http.data)

\* a payment sent through the facade under the credentials key-A completed
\* with the provider's token after initialize had installed those of key-B
C30_Witness ==
    /\ Completed("createPayment") /\ last.via = "facade"
    /\ last.reinitialized
    /\ facade.gateway[1].config.apiKey = "key-B"
    /\ HttpSucceeded(last.http)
    /\ last.outcome = "returned" /\ last.result.success
    /\ last.result.paymentId = "abc123"

====
